---- MODULE Spec2Model ----
(***************************************************************************)
(* Prayer statistics engine of NamazTracker: the record store              *)
(* (server/storage.ts), the write routes and the statistics reconciliation *)
(* (server/routes.ts).                                                     *)
(*                                                                         *)
(* Calendar dates ("YYYY-MM-DD" strings in the code) are day numbers of a  *)
(* small calendar whose day 1 is a Monday; string order on ISO dates is    *)
(* the order of the day numbers, and new Date(s).getTime() differences are *)
(* whole multiples of one day because new Date("YYYY-MM-DD") is UTC        *)
(* midnight.                                                               *)
(***************************************************************************)
EXTENDS Integers, Sequences, FiniteSets, TLC

\* ------------------------------------------------------------------ bounds
MaxDay == 7          \* calendar days 1..MaxDay (day 1 is a Monday)
MaxRequests == 2     \* requests served in one behaviour
MaxFaultDay == 3     \* dates 1..MaxFaultDay of the requests with Store errors
MaxAchievementRequests == 3   \* POST /api/achievements requests in one behaviour
MaxAchievementDay == 2        \* earned dates 1..MaxAchievementDay
MaxBatch == 7        \* batchUpdatePrayersSchema: .max(7)
MinBatch == 1        \* batchUpdatePrayersSchema: .min(1)
WeekSlots == 35      \* groupRecordsByWeek: week.total >= 35

Days == 1..MaxDay
Slots == {"fajr", "dhuhr", "asr", "maghrib", "isha"}
demoUser == "demo-user"

\* ------------------------------------------------------- prayer payloads
\* PrayerStatus values that occur in the payloads of the model
OnTime == [completed |-> TRUE, onTime |-> TRUE]
Late == [completed |-> TRUE, onTime |-> FALSE]
Missed == [completed |-> FALSE, onTime |-> FALSE]

\* a day with all five prayers completed on time
FullDay == [s \in Slots |-> OnTime]
\* a day with one prayer missed and one completed late
PartialDay == [s \in Slots |-> IF s = "asr" THEN Missed ELSE IF s = "dhuhr" THEN Late ELSE OnTime]
\* a day marked completed in bulk: all five completed, none on time
LateDay == [s \in Slots |-> Late]
\* defaultPrayers of the PrayerProvider: nothing completed
defaultPrayers == [s \in Slots |-> Missed]
\* a JSON object that carries only the fajr slot
ShortDay == [s \in {"fajr"} |-> OnTime]
\* a request body without a prayers field
Undefined == [undefined |-> TRUE]

\* bodies of POST /api/prayers: today's toggles, or any JSON a caller sends
Payloads == {FullDay, PartialDay, ShortDay, Undefined}
\* prayers of the updates of POST /api/prayers/batch: the Qaza manager marks
\* whole days; ShortDay is a caller's malformed update
BatchPayloads == {LateDay, ShortDay}

\* dailyPrayersSchema: z.object with the five slots, each a prayerStatusSchema
dailyPrayersSchema(p) ==
  /\ p # Undefined
  /\ DOMAIN p = Slots
  /\ \A s \in Slots : DOMAIN p[s] = {"completed", "onTime"}

\* insertPrayerRecordSchema: createInsertSchema(prayerRecords) minus id and
\* the timestamps; the jsonb column prayers is validated as "any JSON value",
\* the $type<> annotation exists at compile time only
insertPrayerRecordSchema(p) == p # Undefined

\* batchUpdatePrayersSchema on a sequence of [date, prayers] updates
batchUpdatePrayersSchema_NoMax(updates) ==
  /\ Len(updates) >= MinBatch
  /\ \A i \in 1..Len(updates) : dailyPrayersSchema(updates[i].prayers)

batchUpdatePrayersSchema(updates) ==
  /\ Len(updates) >= MinBatch
  /\ Len(updates) <= MaxBatch
  /\ \A i \in 1..Len(updates) : dailyPrayersSchema(updates[i].prayers)

\* ----------------------------------------------------------------- state
VARIABLES
  prayerRecords,    \* table prayer_records: set of rows [id, userId, date, prayers]
  userStats,        \* table user_stats for the demo user: NoStats or a row
  achievements,     \* table achievements: set of rows
  serverBehindUTC,  \* the server's local time zone is west of UTC
  op,               \* the route served by the last request
  requestBody,      \* the updates [date, prayers] of the last write request
  response,         \* status and body of the last response
  upsertCalls,      \* the updatePrayerRecord calls of the last request, in order
  reconcilePasses,  \* calls of updateUserStatistics made by the last request
  failedCall,       \* the Store call that threw during the last request, or "none"
  requests,         \* number of requests served
  storeCalls,       \* the Store calls in flight: their position and what they read
  today,            \* the client's clock: the UTC calendar date of "now"
  clientZone,       \* the client's time zone and its local calendar date
  localStorage,     \* the browser's localStorage: the achievement keys set
  call,             \* the client function called last and its argument
  emitted,          \* the achievement descriptors the last call returned
  summary,          \* the period summary the last call returned
  todayPrayers,     \* PrayerProvider state todayPrayers
  currentStreakState, \* PrayerProvider state currentStreak
  dateRange,        \* the date range the last call of getDateRangeForPeriod returned
  trendData,        \* the trend series the last call of getTrendDataForPeriod returned
  qazaManager       \* QazaPrayerManager: the selection, the batches sent, the toast

serverVars == <<prayerRecords, userStats, achievements, serverBehindUTC, op, requestBody,
                response, upsertCalls, reconcilePasses, failedCall, requests, storeCalls>>

analyticsVars == <<dateRange, trendData, qazaManager>>

clientVars == <<today, clientZone, localStorage, call, emitted, summary,
                todayPrayers, currentStreakState, dateRange, trendData, qazaManager>>

vars == <<prayerRecords, userStats, achievements, serverBehindUTC, op, requestBody,
          response, upsertCalls, reconcilePasses, failedCall, requests, storeCalls,
          today, clientZone, localStorage, call, emitted, summary,
          todayPrayers, currentStreakState, dateRange, trendData, qazaManager>>

NoRange == [startDate |-> 0, endDate |-> 0, dates |-> <<>>]
NoTrend == [labels |-> <<>>, dataPoints |-> <<>>, period |-> "none"]
NoSelection == [selectedWeeks |-> <<>>, selectedMonths |-> <<>>, pending |-> <<>>,
                batches |-> <<>>, failedBatch |-> 0, toast |-> "none"]

\* the client's zone: offset is the sign of its UTC offset (-1 west of UTC,
\* 1 east of it), ahead is its local calendar date minus the UTC date at "now"
ClientZones ==
  {[offset |-> -1, ahead |-> -1], [offset |-> -1, ahead |-> 0],
   [offset |-> 0, ahead |-> 0],
   [offset |-> 1, ahead |-> 0], [offset |-> 1, ahead |-> 1]}

UTCZone == [offset |-> 0, ahead |-> 0]
NoCall == [fn |-> "none", arg |-> 0]
NoSummary == [period |-> "none"]

NoStats == [absent |-> TRUE]

\* ------------------------------------------------------- helper operators
Max(a, b) == IF a >= b THEN a ELSE b

\* Object.values(record.prayers).every(prayer => prayer.completed)
allCompleted(p) == \A s \in DOMAIN p : p[s].completed

\* number of values of the prayers object with completed, resp. onTime too
CompletedCount(p) == Cardinality({s \in DOMAIN p : p[s].completed})
OnTimeCount(p) == Cardinality({s \in DOMAIN p : p[s].completed /\ p[s].onTime})
SlotCount(p) == Cardinality(DOMAIN p)

\* the rows of a set as a list: ranked holds <<n, r>> for the row r that n
\* rows precede, and the k-th element is the row that k - 1 rows precede
InOrder(ranked) ==
  SubSeq([k \in 1..Cardinality(ranked) |-> (CHOOSE p \in ranked : p[1] = k - 1)[2]],
         1, Cardinality(ranked))

\* allRecords.sort((a, b) => a.date.localeCompare(b.date)): the rows ascending
\* by date; the sort is stable, so rows of equal date stay in table order
\* (the order of their ids)
SortAsc(rows) ==
  InOrder({<<Cardinality({q \in rows : q.date < r.date \/ (q.date = r.date /\ q.id < r.id)}), r>> :
             r \in rows})

\* allRecords.sort((a, b) => b.date.localeCompare(a.date)): descending by
\* date, rows of equal date in table order
SortDesc(rows) ==
  InOrder({<<Cardinality({q \in rows : q.date > r.date \/ (q.date = r.date /\ q.id < r.id)}), r>> :
             r \in rows})

\* ------------------------------------------------ storage: prayer records
NoRow == [missing |-> TRUE]

\* randomUUID() / gen_random_uuid(): an id no row of the table has
NewId(rows) == Cardinality(rows) + 1

\* getPrayerRecord: the row of (userId, date); the first one in table order
\* should the table hold several
getPrayerRecord(rows, userId, date) ==
  LET found == {r \in rows : r.userId = userId /\ r.date = date}
  IN IF found = {} THEN NoRow
     ELSE CHOOSE r \in found : \A q \in found : r.id <= q.id

\* getPrayerRecords without a date range: all rows of the user
getPrayerRecords(rows, userId) == {r \in rows : r.userId = userId}

\* createPrayerRecord: insert a row with a fresh id
createPrayerRecord(rows, userId, date, prayers) ==
  LET record == [id |-> NewId(rows), userId |-> userId, date |-> date, prayers |-> prayers]
  IN [rows |-> rows \cup {record}, record |-> record]

\* updatePrayerRecord: replace the prayers of the existing row, keeping its
\* id, or create the row
updatePrayerRecord_AlwaysInsert(rows, userId, date, prayers) ==
  createPrayerRecord(rows, userId, date, prayers)

updatePrayerRecord(rows, userId, date, prayers) ==
  LET existing == getPrayerRecord(rows, userId, date)
  IN IF existing # NoRow
     THEN LET updated == [existing EXCEPT !.prayers = prayers]
          IN [rows |-> (rows \ {existing}) \cup {updated}, record |-> updated]
     ELSE createPrayerRecord(rows, userId, date, prayers)

\* batchUpdatePrayerRecords, the for loop over the updates: done holds the
\* table, the rows pushed to results and the calls made so far; the next
\* update is the one after the calls made, until n calls are made
RECURSIVE batchUpdateLoop(_, _, _, _)
batchUpdateLoop(done, userId, updates, n) ==
  IF Len(done.calls) >= n THEN done
  ELSE LET update == updates[Len(done.calls) + 1]
           this == updatePrayerRecord(done.rows, userId, update.date, update.prayers)
       IN batchUpdateLoop([rows |-> this.rows,
                           records |-> Append(done.records, this.record),
                           calls |-> Append(done.calls, update)],
                          userId, updates, n)

\* batchUpdatePrayerRecords: updatePrayerRecord for the first n updates, in
\* input order; records holds the updated rows and calls the calls made
batchUpdate_SkipFirst(rows, userId, updates, n) ==
  IF n <= 1 THEN [rows |-> rows, records |-> <<>>, calls |-> <<>>]
  ELSE batchUpdateLoop([rows |-> rows, records |-> <<>>, calls |-> <<>>],
                       userId, Tail(updates), n - 1)

batchUpdatePrayerRecords(rows, userId, updates, n) ==
  batchUpdateLoop([rows |-> rows, records |-> <<>>, calls |-> <<>>], userId, updates, n)

\* ------------------------------------------------------ statistics engine
\* getDay() of a day number: 0 is Sunday, 1 is Monday (day 1 is a Monday)
getDay(d) == d % 7

\* groupRecordsByWeek, the week key of a record date:
\*   date = new Date(record.date)              UTC midnight of the date
\*   weekStart.setDate(date.getDate() - (date.getDay() === 0 ? 6 : date.getDay() - 1))
\*                                             in the server's LOCAL zone
\*   weekKey = weekStart.toISOString().split('T')[0]     a UTC date again
\* West of UTC the local calendar day of UTC midnight is the day before.
weekKey(d, behindUTC) ==
  LET shift == IF behindUTC THEN 1 ELSE 0
      localDate == d - shift
      localStart == localDate - (IF getDay(localDate) = 0 THEN 6 ELSE getDay(localDate) - 1)
  IN localStart + shift

\* Math.round((completed / total) * 100)
completionRate(completed, total) ==
  IF total > 0 THEN (200 * completed + total) \div (2 * total) ELSE 0

\* weeks[weekKey].total and weeks[weekKey].completed over the rows of a week
weekTotal(rows) ==
  Cardinality(UNION {{<<r, s>> : s \in DOMAIN r.prayers} : r \in rows})

weekCompleted(rows) ==
  Cardinality(UNION {{<<r, s>> : s \in {x \in DOMAIN r.prayers : r.prayers[x].completed}} :
                       r \in rows})

\* groupRecordsByWeek: the completion rates of the weeks with total >= 35
groupRecordsByWeek(rows, behindUTC) ==
  LET keys == {weekKey(r.date, behindUTC) : r \in rows}
      members(k) == {r \in rows : weekKey(r.date, behindUTC) = k}
      weeks == [k \in keys |-> [completed |-> weekCompleted(members(k)),
                                total |-> weekTotal(members(k))]]
  IN [k \in {k \in keys : weeks[k].total >= WeekSlots} |->
        completionRate(weeks[k].completed, weeks[k].total)]

\* updateUserStatistics, first loop: the walk from the most recent record
\* backwards. A record is counted (currentStreak++, previousDate = its date)
\* while streakBroken is false and the record is all completed; a date more
\* than one day before previousDate or a record not all completed sets
\* streakBroken, which is never reset. So previousDate is the date of the
\* record before, the counted records are the ones before the first record
\* that sets streakBroken, and currentStreak is their number.
streakWalk(sorted) ==
  LET counted(i) == /\ allCompleted(sorted[i].prayers)
                    /\ i > 1 => sorted[i - 1].date - sorted[i].date <= 1
  IN CHOOSE currentStreak \in 0..Len(sorted) :
       /\ currentStreak = Len(sorted) \/ ~counted(currentStreak + 1)
       /\ \A i \in 1..currentStreak : counted(i)

currentStreakOf(rows) == streakWalk(SortDesc(rows))

\* the sum of counts[i] over the records of a sorted list
sumOverRecords(sorted, counts) ==
  Cardinality(UNION {{<<i, k>> : k \in 1..counts[i]} : i \in 1..Len(sorted)})

\* updateUserStatistics, second loop: tempStreak after the j-th record, the
\* length of the run of all-completed records that ends there (tempStreak++
\* for an all-completed record, tempStreak = 0 for any other, whatever the
\* dates are); done[k] tells whether the k-th record is all completed
tempStreakAfter(done, j) ==
  CHOOSE tempStreak \in 0..j :
    /\ tempStreak = j \/ ~done[j - tempStreak]
    /\ \A k \in (j - tempStreak + 1)..j : done[k]

\* bestStreak = Math.max(bestStreak, tempStreak) after every record: the
\* greatest of the values tempStreak takes, 0 for no record
bestStreakOver(tempStreaks) ==
  IF DOMAIN tempStreaks = {} THEN 0
  ELSE tempStreaks[CHOOSE j \in DOMAIN tempStreaks :
                     \A k \in DOMAIN tempStreaks : tempStreaks[k] <= tempStreaks[j]]

tempStreaksOf(done) == SubSeq([j \in 1..Len(done) |-> tempStreakAfter(done, j)], 1, Len(done))

\* updateUserStatistics, second loop: the chronological walk. The totals
\* are sums over all records: totalPrayers++ for a completed slot,
\* onTimePrayers++ when it is on time as well, qazaPrayers++ for a slot not
\* completed.
totalsWalk(sorted) ==
  [totalPrayers |-> sumOverRecords(sorted, [i \in 1..Len(sorted) |->
                      CompletedCount(sorted[i].prayers)]),
   onTimePrayers |-> sumOverRecords(sorted, [i \in 1..Len(sorted) |->
                       OnTimeCount(sorted[i].prayers)]),
   qazaPrayers |-> sumOverRecords(sorted, [i \in 1..Len(sorted) |->
                     SlotCount(sorted[i].prayers) - CompletedCount(sorted[i].prayers)]),
   bestStreak |-> bestStreakOver(tempStreaksOf(SubSeq([i \in 1..Len(sorted) |->
                                                         allCompleted(sorted[i].prayers)],
                                                      1, Len(sorted))))]

totalsOf(rows) == totalsWalk(SortAsc(rows))

\* weekGroups.filter(week => week.completionRate === 100).length
perfectWeeksOf(rows, behindUTC) ==
  LET weekGroups == groupRecordsByWeek(rows, behindUTC)
  IN Cardinality({k \in DOMAIN weekGroups : weekGroups[k] = 100})

computeStatistics_StreaksSwapped(rows, behindUTC) ==
  LET currentStreak == currentStreakOf(rows)
      totals == totalsOf(rows)
  IN [totalPrayers |-> totals.totalPrayers,
      onTimePrayers |-> totals.onTimePrayers,
      qazaPrayers |-> totals.qazaPrayers,
      currentStreak |-> Max(totals.bestStreak, currentStreak),
      bestStreak |-> currentStreak,
      perfectWeeks |-> perfectWeeksOf(rows, behindUTC)]

\* updateUserStatistics, the values written to user_stats
computeStatistics(rows, behindUTC) ==
  LET currentStreak == currentStreakOf(rows)
      totals == totalsOf(rows)
  IN [totalPrayers |-> totals.totalPrayers,
      onTimePrayers |-> totals.onTimePrayers,
      qazaPrayers |-> totals.qazaPrayers,
      currentStreak |-> currentStreak,
      bestStreak |-> Max(totals.bestStreak, currentStreak),
      perfectWeeks |-> perfectWeeksOf(rows, behindUTC)]

\* ---------------------------------------------------- storage: user stats
ZeroStats ==
  [totalPrayers |-> 0, onTimePrayers |-> 0, qazaPrayers |-> 0,
   currentStreak |-> 0, bestStreak |-> 0, perfectWeeks |-> 0]

\* createUserStats: the given fields, 0 for the others
createUserStats(fields) ==
  [f \in DOMAIN ZeroStats |-> IF f \in DOMAIN fields THEN fields[f] ELSE 0]

\* updateUserStats: { ...existing, ...updates }
updateUserStats(existing, updates) ==
  [f \in DOMAIN existing |-> IF f \in DOMAIN updates THEN updates[f] ELSE existing[f]]

\* the Store calls of updateUserStatistics that can throw
ReconcileCalls == {"getPrayerRecords", "getUserStats", "writeUserStats"}

\* updateUserStatistics(userId): user_stats after the pass; an error of any
\* Store call is caught and logged and leaves user_stats as it was
updateUserStatistics(rows, stats, behindUTC, failing) ==
  IF failing \in ReconcileCalls THEN stats
  ELSE LET computed == computeStatistics(getPrayerRecords(rows, demoUser), behindUTC)
       IN IF stats # NoStats THEN updateUserStats(stats, computed)
          ELSE createUserStats(computed)

\* ---------------------------------------------------------------- inputs
\* the Store call that throws during a request, if any, and for a batch the
\* update (1..n) whose updatePrayerRecord throws
Failures(n) ==
  {[call |-> c, at |-> 0] : c \in {"none"} \cup ReconcileCalls}
    \cup {[call |-> "updatePrayerRecord", at |-> k] : k \in 1..n}

\* a batch request body: consecutive dates from a start date, one payload
RangeUpdates(start, n, p) == [i \in 1..n |-> [date |-> start + i - 1, prayers |-> p]]

\* a batch request body that names one date twice
RepeatedUpdates(date) ==
  <<[date |-> date, prayers |-> LateDay], [date |-> date, prayers |-> PartialDay]>>

\* the first date of a batch: a Monday or a Tuesday
BatchStarts == {1, 2}

\* the batch request bodies on the dates 1..last: the empty batch, one to
\* MaxBatch consecutive dates all completed late, a batch of one malformed
\* day, a batch that names its first date twice, and a batch of MaxBatch + 1
\* dates
BatchBodies(last) ==
  {RangeUpdates(t[1], t[2], LateDay) :
     t \in {x \in BatchStarts \X (0..MaxBatch) : x[1] + x[2] - 1 <= last}}
    \cup {RangeUpdates(start, MinBatch, p) : start \in BatchStarts, p \in BatchPayloads}
    \cup {RepeatedUpdates(start) : start \in BatchStarts}
    \cup {RangeUpdates(1, MaxBatch + 1, LateDay)}

\* ------------------------------------------------------------------ Init
Init ==
  /\ prayerRecords = {}
  /\ userStats = NoStats
  /\ achievements = {}
  /\ serverBehindUTC \in BOOLEAN
  /\ op = "start"
  /\ requestBody = <<>>
  /\ response = [status |-> 0, records |-> <<>>]
  /\ upsertCalls = <<>>
  /\ reconcilePasses = 0
  /\ failedCall = "none"
  /\ requests = 0
  /\ today = 1
  /\ clientZone = UTCZone
  /\ localStorage = {}
  /\ call = NoCall
  /\ emitted = <<>>
  /\ summary = NoSummary
  /\ todayPrayers = defaultPrayers
  /\ currentStreakState = 0
  /\ storeCalls = <<>>
  /\ dateRange = NoRange
  /\ trendData = NoTrend
  /\ qazaManager = NoSelection

\* --------------------------------------------------------------- actions
PostPrayers_ReconcileErrorFails(date, prayers, failing) ==
  /\ requests < MaxRequests
  /\ requests' = requests + 1
  /\ op' = "POST /api/prayers"
  /\ requestBody' = <<[date |-> date, prayers |-> prayers]>>
  /\ UNCHANGED <<achievements, serverBehindUTC>>
  /\ UNCHANGED <<storeCalls, clientVars>>
  /\ IF ~insertPrayerRecordSchema(prayers)
     THEN /\ failing = "none"
          /\ response' = [status |-> 400, records |-> <<>>]
          /\ upsertCalls' = <<>>
          /\ reconcilePasses' = 0
          /\ failedCall' = "none"
          /\ UNCHANGED <<prayerRecords, userStats>>
     ELSE IF failing = "updatePrayerRecord"
     THEN /\ response' = [status |-> 400, records |-> <<>>]
          /\ upsertCalls' = <<[date |-> date, prayers |-> prayers]>>
          /\ reconcilePasses' = 0
          /\ failedCall' = failing
          /\ UNCHANGED <<prayerRecords, userStats>>
     ELSE LET written == updatePrayerRecord(prayerRecords, demoUser, date, prayers)
          IN /\ prayerRecords' = written.rows
             /\ upsertCalls' = <<[date |-> date, prayers |-> prayers]>>
             /\ userStats' = updateUserStatistics(written.rows, userStats, serverBehindUTC, failing)
             /\ reconcilePasses' = 1
             /\ failedCall' = failing
             /\ response' = IF failing \in ReconcileCalls
                            THEN [status |-> 400, records |-> <<>>]
                            ELSE [status |-> 200, records |-> <<written.record>>]

\* POST /api/prayers with body {date, prayers}
PostPrayers(date, prayers, failing) ==
  /\ requests < MaxRequests
  /\ requests' = requests + 1
  /\ op' = "POST /api/prayers"
  /\ requestBody' = <<[date |-> date, prayers |-> prayers]>>
  /\ UNCHANGED <<achievements, serverBehindUTC>>
  /\ UNCHANGED <<storeCalls, clientVars>>
  /\ IF ~insertPrayerRecordSchema(prayers)
     THEN \* ZodError: 400 before any Store call
          /\ failing = "none"
          /\ response' = [status |-> 400, records |-> <<>>]
          /\ upsertCalls' = <<>>
          /\ reconcilePasses' = 0
          /\ failedCall' = "none"
          /\ UNCHANGED <<prayerRecords, userStats>>
     ELSE IF failing = "updatePrayerRecord"
     THEN \* the primary write throws: 400 with the error message
          /\ response' = [status |-> 400, records |-> <<>>]
          /\ upsertCalls' = <<[date |-> date, prayers |-> prayers]>>
          /\ reconcilePasses' = 0
          /\ failedCall' = failing
          /\ UNCHANGED <<prayerRecords, userStats>>
     ELSE LET written == updatePrayerRecord(prayerRecords, demoUser, date, prayers)
          IN /\ prayerRecords' = written.rows
             /\ upsertCalls' = <<[date |-> date, prayers |-> prayers]>>
             /\ userStats' = updateUserStatistics(written.rows, userStats, serverBehindUTC, failing)
             /\ reconcilePasses' = 1
             /\ failedCall' = failing
             /\ response' = [status |-> 200, records |-> <<written.record>>]

\* POST /api/prayers/batch with body {updates}; failAt is the update whose
\* updatePrayerRecord throws when failing = "updatePrayerRecord"
PostBatch(updates, failing, failAt) ==
  /\ requests < MaxRequests
  /\ requests' = requests + 1
  /\ op' = "POST /api/prayers/batch"
  /\ requestBody' = updates
  /\ UNCHANGED <<achievements, serverBehindUTC>>
  /\ UNCHANGED <<storeCalls, clientVars>>
  /\ IF ~batchUpdatePrayersSchema(updates)
     THEN \* ZodError: 400 before any Store call
          /\ failing = "none"
          /\ failAt = 0
          /\ response' = [status |-> 400, records |-> <<>>]
          /\ upsertCalls' = <<>>
          /\ reconcilePasses' = 0
          /\ failedCall' = "none"
          /\ UNCHANGED <<prayerRecords, userStats>>
     ELSE IF failing = "updatePrayerRecord"
     THEN \* the first failAt - 1 upserts are stored, then the loop throws
          /\ failAt \in 1..Len(updates)
          /\ \E done \in {batchUpdatePrayerRecords(prayerRecords, demoUser, updates, failAt - 1)} :
                /\ prayerRecords' = done.rows
                /\ upsertCalls' = Append(done.calls, updates[failAt])
          /\ response' = [status |-> 400, records |-> <<>>]
          /\ reconcilePasses' = 0
          /\ failedCall' = failing
          /\ UNCHANGED userStats
     ELSE /\ failAt = 0
          /\ \E done \in {batchUpdatePrayerRecords(prayerRecords, demoUser, updates, Len(updates))} :
                /\ prayerRecords' = done.rows
                /\ upsertCalls' = done.calls
                /\ userStats' = updateUserStatistics(done.rows, userStats, serverBehindUTC, failing)
                /\ response' = [status |-> 200, records |-> done.records]
          /\ reconcilePasses' = 1
          /\ failedCall' = failing

\* GET /api/stats: creates the zero statistics row when the user has none
GetStats ==
  /\ requests < MaxRequests
  /\ requests' = requests + 1
  /\ op' = "GET /api/stats"
  /\ requestBody' = <<>>
  /\ userStats' = IF userStats = NoStats THEN createUserStats([userId |-> demoUser]) ELSE userStats
  /\ response' = [status |-> 200, records |-> <<>>]
  /\ upsertCalls' = <<>>
  /\ reconcilePasses' = 0
  /\ failedCall' = "none"
  /\ UNCHANGED <<prayerRecords, achievements, serverBehindUTC>>
  /\ UNCHANGED <<storeCalls, clientVars>>

DoPostPrayers ==
  /\ requests < MaxRequests
  /\ \E date \in Days, prayers \in Payloads :
       PostPrayers(date, prayers, "none")

DoPostBatch ==
  /\ requests < MaxRequests
  /\ \E updates \in BatchBodies(MaxDay) :
       PostBatch(updates, "none", 0)

Next ==
  \/ DoPostPrayers
  \/ DoPostBatch
  \/ GetStats

Spec == Init /\ [][Next]_vars

\* ------------------------------------------------- requests with Store errors
\* the same routes on the first MaxFaultDay dates, where any Store call of
\* the request may throw
FaultDays == 1..MaxFaultDay

PostPrayersWithFaults ==
  /\ requests < MaxRequests
  /\ \E date \in FaultDays, prayers \in Payloads, failing \in Failures(1) :
       PostPrayers(date, prayers, failing.call)

PostBatchWithFaults ==
  /\ requests < MaxRequests
  /\ \E updates \in BatchBodies(MaxFaultDay) :
       \E failing \in Failures(Len(updates)) :
         PostBatch(updates, failing.call, failing.at)

NextFaults ==
  \/ PostPrayersWithFaults
  \/ PostBatchWithFaults
  \/ GetStats

SpecFaults == Init /\ [][NextFaults]_vars

\* -------------------------------------------------- storage: achievements
\* createAchievement: the existing achievement of (userId, type, earnedDate),
\* the first in table order, or a new row with a fresh id
createAchievement_AlwaysInsert(rows, insertAchievement) ==
  LET created == [id |-> NewId(rows),
                  userId |-> insertAchievement.userId,
                  type |-> insertAchievement.type,
                  title |-> insertAchievement.title,
                  description |-> insertAchievement.description,
                  earnedDate |-> insertAchievement.earnedDate,
                  metadata |-> insertAchievement.metadata]
  IN [rows |-> rows \cup {created}, achievement |-> created]

createAchievement(rows, insertAchievement) ==
  LET existing == {a \in rows : /\ a.userId = insertAchievement.userId
                                /\ a.type = insertAchievement.type
                                /\ a.earnedDate = insertAchievement.earnedDate}
  IN IF existing # {}
     THEN [rows |-> rows,
           achievement |-> CHOOSE a \in existing : \A b \in existing : a.id <= b.id]
     ELSE LET created == [id |-> NewId(rows),
                          userId |-> insertAchievement.userId,
                          type |-> insertAchievement.type,
                          title |-> insertAchievement.title,
                          description |-> insertAchievement.description,
                          earnedDate |-> insertAchievement.earnedDate,
                          metadata |-> insertAchievement.metadata]
          IN [rows |-> rows \cup {created}, achievement |-> created]

\* request bodies of POST /api/achievements
AchievementTypes == {"perfect_day", "streak_milestone"}
AchievementDays == 1..MaxAchievementDay
AchievementTexts ==
  {[title |-> "Perfect Day", description |-> "All five prayers", metadata |-> [streakDays |-> 0]],
   [title |-> "7 Day Streak", description |-> "Seven days in a row", metadata |-> [streakDays |-> 7]],
   [description |-> "No title", metadata |-> [streakDays |-> 0]]}

\* insertAchievementSchema: type, title, description and earnedDate are
\* required strings (text(...).notNull()); metadata is any JSON
insertAchievementSchema(body) ==
  {"type", "title", "description", "earnedDate"} \subseteq DOMAIN body

\* POST /api/achievements with body {type, title, description, earnedDate, metadata}
PostAchievement(type, earnedDate, text) ==
  /\ requests < MaxAchievementRequests
  /\ requests' = requests + 1
  /\ op' = "POST /api/achievements"
  /\ LET body == text @@ [userId |-> demoUser, type |-> type, earnedDate |-> earnedDate]
     IN /\ requestBody' = <<body>>
        /\ IF ~insertAchievementSchema(body)
           THEN /\ response' = [status |-> 400, records |-> <<>>]
                /\ UNCHANGED achievements
           ELSE LET made == createAchievement(achievements, body)
                IN /\ achievements' = made.rows
                   /\ response' = [status |-> 200, records |-> <<made.achievement>>]
  /\ upsertCalls' = <<>>
  /\ reconcilePasses' = 0
  /\ failedCall' = "none"
  /\ UNCHANGED <<prayerRecords, userStats, serverBehindUTC>>
  /\ UNCHANGED <<storeCalls, clientVars>>

NextAchievements ==
  \E type \in AchievementTypes, earnedDate \in AchievementDays, text \in AchievementTexts :
    PostAchievement(type, earnedDate, text)

SpecAchievements == Init /\ [][NextAchievements]_vars

\* ======================================================= claims C1 .. C10
\* the last request ran a reconciliation pass and no Store call of it threw
Reconciled == reconcilePasses >= 1 /\ failedCall = "none"

\* every stored record has the five slots of DailyPrayers
WellFormedHistory == \A r \in prayerRecords : dailyPrayersSchema(r.prayers)

\* a record with all 5 slots completed
FullyCompleted(r) == DOMAIN r.prayers = Slots /\ \A s \in Slots : r.prayers[s].completed

\* the date d has a record with all 5 slots completed
CompleteOn(rows, d) == \E r \in rows : r.date = d /\ FullyCompleted(r)

\* the run of fully completed consecutive calendar days that ends at `last`
RunEndingAt(rows, last) ==
  CHOOSE k \in 0..MaxDay :
    /\ \A i \in 0..(k - 1) : last - i >= 1 /\ CompleteOn(rows, last - i)
    /\ ~(last - k >= 1 /\ CompleteOn(rows, last - k))

\* the streak as the specification defines it: the run that ends at the
\* user's most recent record
SpecCurrentStreak(rows) ==
  IF rows = {} THEN 0
  ELSE RunEndingAt(rows, CHOOSE d \in Days :
         (\E r \in rows : r.date = d) /\ \A r \in rows : r.date <= d)

\* the longest run of fully completed records on consecutive calendar days
SpecBestStreak(rows) ==
  CHOOSE k \in 0..MaxDay :
    /\ \E d \in Days : RunEndingAt(rows, d) >= k
    /\ \A d \in Days : RunEndingAt(rows, d) <= k

\* C1: after every reconciliation the persisted statistics satisfy
\* bestStreak >= currentStreak, also for the empty record history
C1_BestAtLeastCurrent ==
  /\ Reconciled => userStats # NoStats /\ userStats.bestStreak >= userStats.currentStreak
  /\ computeStatistics({}, serverBehindUTC).bestStreak
       >= computeStatistics({}, serverBehindUTC).currentStreak

\* a reconciliation stored a current streak shorter than the best streak
C1_Witness ==
  /\ Reconciled
  /\ WellFormedHistory
  /\ userStats.currentStreak >= 1
  /\ userStats.bestStreak > userStats.currentStreak

\* C2: currentStreak equals the length of the run of records with all 5 slots
\* completed on consecutive calendar days that ends at the most recent record
C2_CurrentStreakIsLatestRun ==
  Reconciled => userStats.currentStreak = SpecCurrentStreak(prayerRecords)

\* C3: bestStreak equals the longest run of fully completed records on
\* consecutive calendar days (stated for histories of five-slot records)
C3_BestStreakIsLongestRun ==
  (Reconciled /\ WellFormedHistory) => userStats.bestStreak = SpecBestStreak(prayerRecords)

\* the Monday of the calendar week (Monday to Sunday) of a date
MondayOf(d) == d - ((d + 6) % 7)

\* all seven dates of the week that starts on Monday m have a record with
\* all 5 slots completed
WeekAllComplete(rows, m) == \A d \in m..(m + 6) : CompleteOn(rows, d)

\* the weeks, by their week key, that reconciliation counts as perfect
CountedWeeks(rows, behindUTC) ==
  {k \in DOMAIN groupRecordsByWeek(rows, behindUTC) : groupRecordsByWeek(rows, behindUTC)[k] = 100}

\* C4: the single-day write that completes a Monday-Sunday week (all seven
\* dates now have all 5 slots completed, which was not so before) makes the
\* reconciled perfectWeeks exactly 1 greater than it was for the records
\* before (stated for histories of five-slot records)
C4_PerfectWeekAddsOne ==
  [][(/\ op' = "POST /api/prayers"
      /\ Reconciled'
      /\ WellFormedHistory'
      /\ WeekAllComplete(prayerRecords', MondayOf(requestBody'[1].date))
      /\ ~WeekAllComplete(prayerRecords, MondayOf(requestBody'[1].date)))
     => userStats'.perfectWeeks = perfectWeeksOf(prayerRecords, serverBehindUTC) + 1]_vars

\* C5: the weeks counted in perfectWeeks are exactly the weeks, keyed by their
\* Monday, whose seven dates all have a record with all 5 slots completed; a
\* week with fewer than 7 recorded dates is never counted (stated for
\* histories of five-slot records)
C5_OnlyFullWeeksCount ==
  (Reconciled /\ WellFormedHistory) =>
    /\ CountedWeeks(prayerRecords, serverBehindUTC)
         = {m \in Days : getDay(m) = 1 /\ WeekAllComplete(prayerRecords, m)}
    /\ userStats.perfectWeeks
         = Cardinality({m \in Days : getDay(m) = 1 /\ WeekAllComplete(prayerRecords, m)})

\* the completed slots of all stored records
CompletedSlots(rows) ==
  UNION {{<<r.id, s>> : s \in {x \in DOMAIN r.prayers : r.prayers[x].completed}} : r \in rows}

\* C6: after every reconciliation totalPrayers + qazaPrayers is 5 times the
\* number of stored records, onTimePrayers <= totalPrayers, and totalPrayers
\* counts exactly the completed slots
C6_LifetimeTotals ==
  Reconciled =>
    /\ userStats.totalPrayers + userStats.qazaPrayers = 5 * Cardinality(prayerRecords)
    /\ userStats.onTimePrayers <= userStats.totalPrayers
    /\ userStats.totalPrayers = Cardinality(CompletedSlots(prayerRecords))

\* ---- C7
SameAchievementKey(a, b) ==
  a.userId = b.userId /\ a.type = b.type /\ a.earnedDate = b.earnedDate

\* C7: sequential createAchievement calls with the same (userId, type,
\* earnedDate) leave exactly one stored achievement of that key and return
\* its id every time; title, description and metadata stay those of the first
\* call, and no other stored achievement changes
C7_CreateAchievementIdempotent ==
  [][(op' = "POST /api/achievements" /\ response'.status = 200) =>
       LET body == requestBody'[1]
           returned == response'.records[1]
           prior == {a \in achievements : SameAchievementKey(a, body)}
       IN /\ \A a, b \in achievements' : SameAchievementKey(a, b) => a = b
          /\ SameAchievementKey(returned, body)
          /\ returned \in achievements'
          /\ achievements \subseteq achievements'
          /\ IF prior # {}
             THEN /\ returned \in prior
                  /\ achievements' = achievements
             ELSE /\ achievements' = achievements \cup {returned}
                  /\ \A a \in achievements : a.id # returned.id
                  /\ returned.title = body.title
                  /\ returned.description = body.description
                  /\ returned.metadata = body.metadata]_vars

\* a repeated call with another title was answered with the stored achievement
C7_Witness ==
  /\ op = "POST /api/achievements"
  /\ response.status = 200
  /\ Cardinality(achievements) >= 2
  /\ response.records[1].title # requestBody[1].title
  /\ response.records[1].id < Cardinality(achievements)

\* ---- C8
WriteOps == {"POST /api/prayers", "POST /api/prayers/batch"}

\* the prayers of the last update of a request body that names the date
LastWritten(updates, date) ==
  LET last == CHOOSE i \in 1..Len(updates) :
                /\ updates[i].date = date
                /\ \A j \in (i + 1)..Len(updates) : updates[j].date # date
  IN updates[last].prayers

\* C8: the store holds at most one record per (userId, date); a write to a
\* date that has a record keeps the record's id and replaces its prayers with
\* the written value, and no write removes a record or touches another date
C8_OneRecordPerDate ==
  [][/\ \A a, b \in prayerRecords' : (a.userId = b.userId /\ a.date = b.date) => a = b
     /\ \A r \in prayerRecords :
          \E q \in prayerRecords' :
            /\ q.id = r.id /\ q.userId = r.userId /\ q.date = r.date
            /\ (\A i \in 1..Len(upsertCalls') : upsertCalls'[i].date # r.date) => q = r
     /\ (op' \in WriteOps /\ response'.status = 200) =>
          \A i \in 1..Len(requestBody') :
            \E q \in prayerRecords' :
              /\ q.userId = demoUser
              /\ q.date = requestBody'[i].date
              /\ q.prayers = LastWritten(requestBody', q.date)
              /\ response'.records[i].id = q.id]_vars

\* a second write to a date kept the id of the first and replaced its prayers
C8_Witness ==
  /\ op = "POST /api/prayers/batch"
  /\ response.status = 200
  /\ Len(requestBody) = 2
  /\ requestBody[1].date = requestBody[2].date
  /\ requestBody[1].prayers # requestBody[2].prayers
  /\ response.records[1].id = response.records[2].id
  /\ Cardinality(prayerRecords) = 2
  /\ \E r \in prayerRecords :
       /\ r.id = response.records[2].id
       /\ r.prayers = requestBody[2].prayers

\* ---- C9
BatchSucceeded == op = "POST /api/prayers/batch" /\ response.status = 200

C10_ReconcileFailureKeepsWrite ==
  [][(op' \in WriteOps /\ failedCall' \in ReconcileCalls) =>
       /\ response'.status = 200
       /\ Len(response'.records) = Len(requestBody')
       /\ \A i \in 1..Len(requestBody') :
            /\ response'.records[i].date = requestBody'[i].date
            /\ response'.records[i].prayers = requestBody'[i].prayers
            /\ \E q \in prayerRecords' :
                 /\ q.id = response'.records[i].id
                 /\ q.date = requestBody'[i].date
                 /\ q.prayers = LastWritten(requestBody', q.date)
       /\ userStats' = userStats]_vars

\* a write succeeded while its reconciliation failed: the statistics are stale
C10_Witness ==
  /\ op = "POST /api/prayers"
  /\ failedCall \in ReconcileCalls
  /\ response.status = 200
  /\ response.records[1] \in prayerRecords
  /\ userStats # NoStats
  /\ userStats.totalPrayers # computeStatistics(prayerRecords, serverBehindUTC).totalPrayers

\* ======================================================= claims C11 .. C20
\* ------------------------------------------------------- PATCH /api/stats
\* request bodies of PATCH /api/stats
StatsUpdates ==
  {[currentStreak |-> 5, bestStreak |-> 0],
   [totalPrayers |-> 3],
   [perfectWeeks |-> 2, qazaPrayers |-> 0],
   [currentStreak |-> -1]}

\* userStatsUpdateSchema: every given counter is an integer >= 0
userStatsUpdateSchema(updates) ==
  /\ DOMAIN updates \subseteq DOMAIN ZeroStats
  /\ \A f \in DOMAIN updates : updates[f] \in Nat

\* PATCH /api/stats with the body updates: storage.updateUserStats of the
\* validated body; "User stats not found" when the user has no row
PatchStats(updates) ==
  /\ requests < MaxRequests
  /\ requests' = requests + 1
  /\ op' = "PATCH /api/stats"
  /\ requestBody' = <<updates>>
  /\ IF userStatsUpdateSchema(updates) /\ userStats # NoStats
     THEN /\ userStats' = updateUserStats(userStats, updates)
          /\ response' = [status |-> 200, records |-> <<>>]
     ELSE /\ UNCHANGED userStats
          /\ response' = [status |-> 400, records |-> <<>>]
  /\ upsertCalls' = <<>>
  /\ reconcilePasses' = 0
  /\ failedCall' = "none"
  /\ UNCHANGED <<prayerRecords, achievements, serverBehindUTC>>
  /\ UNCHANGED <<storeCalls, clientVars>>

DoPatchStats ==
  /\ requests < MaxRequests
  /\ \E updates \in StatsUpdates : PatchStats(updates)

NextStats ==
  \/ DoPostPrayers
  \/ DoPatchStats
  \/ GetStats

SpecStats == Init /\ [][NextStats]_vars

\* C11: the stored statistics change only by a reconciliation pass: PATCH
\* /api/stats cannot set the counters to values other than those computed
\* from the records, so bestStreak >= currentStreak in every stored state
C11_StatsOnlyFromReconciliation ==
  /\ [](userStats # NoStats => userStats.bestStreak >= userStats.currentStreak)
  /\ [][op' = "PATCH /api/stats" =>
          \/ userStats' = userStats
          \/ \A f \in DOMAIN ZeroStats \ {"onTimePrayers"} :
               userStats'[f] = computeStatistics(prayerRecords', serverBehindUTC)[f]]_vars

\* C13: POST /api/prayers rejects a prayers payload that lacks one of the
\* five slots or has a malformed status, before any Store call, so every
\* stored record has exactly five well-formed slots
C13_SingleWriteValidated ==
  /\ \A r \in prayerRecords : dailyPrayersSchema(r.prayers)
  /\ (op = "POST /api/prayers" /\ ~dailyPrayersSchema(requestBody[1].prayers)) =>
       /\ response.status = 400
       /\ upsertCalls = <<>>

\* C14: a batch with zero or with more than 7 updates is rejected and makes
\* no upsert and no statistics write; a batch of 1 to 7 well-formed updates
\* is accepted
C14_BatchSizeValidated ==
  [][op' = "POST /api/prayers/batch" =>
       IF Len(requestBody') = 0 \/ Len(requestBody') > 7
       THEN /\ response'.status = 400
            /\ upsertCalls' = <<>>
            /\ reconcilePasses' = 0
            /\ prayerRecords' = prayerRecords
            /\ userStats' = userStats
       ELSE (\A i \in 1..Len(requestBody') : dailyPrayersSchema(requestBody'[i].prayers)) =>
              /\ response'.status = 200
              /\ Len(upsertCalls') = Len(requestBody')]_vars

\* a batch of eight updates was rejected after an earlier accepted write
C14_Witness ==
  /\ op = "POST /api/prayers/batch"
  /\ Len(requestBody) = 8
  /\ response.status = 400
  /\ prayerRecords # {}
  /\ userStats # NoStats

\* ------------------------------------------------ client: achievement rules
MaxStreakInput == 366    \* streak values 0..MaxStreakInput given to the streak rule
MaxTotalInput == 5001    \* totals 0..MaxTotalInput given to the milestone rule

streakMilestones == <<7, 30, 50, 100, 200, 365>>
prayerMilestones == <<50, 100, 250, 500, 1000, 2500, 5000>>

\* the switch of checkStreakAchievements
streakTitle(milestone) ==
  CASE milestone = 7 -> "Week Warrior"
    [] milestone = 30 -> "Monthly Master"
    [] milestone = 50 -> "Consistency Champion"
    [] milestone = 100 -> "Century Devotee"
    [] milestone = 200 -> "Dedication Legend"
    [] milestone = 365 -> "Yearly Devotee"
    [] OTHER -> "Day Streak"

\* the switch of checkPrayerMilestones
prayerTitle(milestone) ==
  CASE milestone = 50 -> "Prayer Beginner"
    [] milestone = 100 -> "Prayer Enthusiast"
    [] milestone = 250 -> "Prayer Devotee"
    [] milestone = 500 -> "Prayer Champion"
    [] milestone = 1000 -> "Prayer Master"
    [] milestone = 2500 -> "Prayer Legend"
    [] milestone = 5000 -> "Prayer Saint"
    [] OTHER -> "Prayers"

\* for (const milestone of milestones) { if (test) { ...; break } }: the
\* index of the first milestone that passes the test, 0 for none; passes[i]
\* tells whether the i-th milestone passes
FirstIndex(passes) ==
  IF \E i \in DOMAIN passes : passes[i]
  THEN CHOOSE i \in DOMAIN passes :
         /\ passes[i]
         /\ \A j \in 1..(i - 1) : ~passes[j]
  ELSE 0

\* checkStreakAchievements(currentStreak), todayString is getTodayString()
checkStreakAchievements_AtLeast(currentStreak, todayString) ==
  LET Test(m) == currentStreak >= m
      i == FirstIndex([k \in 1..Len(streakMilestones) |-> Test(streakMilestones[k])])
  IN IF i = 0 THEN <<>>
     ELSE <<[type |-> "streak_milestone",
             title |-> streakTitle(streakMilestones[i]),
             metadata |-> [streakDays |-> streakMilestones[i], earnedDate |-> todayString]]>>

checkStreakAchievements(currentStreak, todayString) ==
  LET Test(m) == currentStreak = m
      i == FirstIndex([k \in 1..Len(streakMilestones) |-> Test(streakMilestones[k])])
  IN IF i = 0 THEN <<>>
     ELSE <<[type |-> "streak_milestone",
             title |-> streakTitle(streakMilestones[i]),
             metadata |-> [streakDays |-> streakMilestones[i], earnedDate |-> todayString]]>>

\* checkPrayerMilestones(totalPrayers)
checkPrayerMilestones(totalPrayers, todayString) ==
  LET Test(m) == totalPrayers = m
      i == FirstIndex([k \in 1..Len(prayerMilestones) |-> Test(prayerMilestones[k])])
  IN IF i = 0 THEN <<>>
     ELSE <<[type |-> "prayer_milestone",
             title |-> prayerTitle(prayerMilestones[i]),
             metadata |-> [totalPrayers |-> prayerMilestones[i], earnedDate |-> todayString]]>>

\* a call of checkStreakAchievements
CheckStreakAchievements ==
  \E currentStreak \in 0..MaxStreakInput :
    /\ call.fn = NoCall.fn
    /\ call' = [fn |-> "checkStreakAchievements", arg |-> currentStreak]
    /\ emitted' = checkStreakAchievements(currentStreak, today)
    /\ UNCHANGED serverVars
    /\ UNCHANGED <<today, clientZone, localStorage, summary, todayPrayers, currentStreakState>>
    /\ UNCHANGED analyticsVars

\* a call of checkPrayerMilestones
CheckPrayerMilestones ==
  \E totalPrayers \in 0..MaxTotalInput :
    /\ call.fn = NoCall.fn
    /\ call' = [fn |-> "checkPrayerMilestones", arg |-> totalPrayers]
    /\ emitted' = checkPrayerMilestones(totalPrayers, today)
    /\ UNCHANGED serverVars
    /\ UNCHANGED <<today, clientZone, localStorage, summary, todayPrayers, currentStreakState>>
    /\ UNCHANGED analyticsVars

NextRules ==
  \/ CheckStreakAchievements
  \/ CheckPrayerMilestones

SpecRules == Init /\ [][NextRules]_vars

\* C16: checkStreakAchievements(currentStreak) returns exactly one
\* streak_milestone descriptor, with streakDays = currentStreak, when
\* currentStreak is one of 7, 30, 50, 100, 200, 365, and nothing otherwise
C16_StreakRuleExact ==
  call.fn = "checkStreakAchievements" =>
    IF call.arg \in {7, 30, 50, 100, 200, 365}
    THEN /\ Len(emitted) = 1
         /\ emitted[1].type = "streak_milestone"
         /\ emitted[1].metadata.streakDays = call.arg
    ELSE emitted = <<>>

\* a streak of 31 emitted neither the 7-day nor the 30-day badge
C16_Witness ==
  /\ call.fn = "checkStreakAchievements"
  /\ call.arg = 31
  /\ emitted = <<>>

\* ------------------------------------------------ client: period analytics
MaxReferenceDay == 70    \* the client is opened on a UTC date 1..MaxReferenceDay

\* the calendar of the day numbers: day 1 is 2024-01-01, day 0 is 2023-12-31;
\* the first days of the months December 2023 .. April 2024 and of the years
MonthStarts == <<-30, 1, 32, 61, 92>>
YearStarts == <<-364, 1>>

\* the latest of the period starts that is not after the date
PeriodStart(starts, date) ==
  LET i == CHOOSE k \in 1..Len(starts) :
             /\ starts[k] <= date
             /\ \A j \in (k + 1)..Len(starts) : starts[j] > date
  IN starts[i]

\* the local calendar date of "now"
LocalDate(now, zone) == now + zone.ahead

\* new Date(y, m, d).toISOString().split('T')[0]: the UTC date of the local
\* midnight of a local date; east of UTC that is the day before
ISODateOfLocalMidnight(date, zone) == IF zone.offset = 1 THEN date - 1 ELSE date

\* the rows of a history: the dates first..last with the same prayers
HistoryOf(first, last, prayers) ==
  {[id |-> d - first + 1, userId |-> demoUser, date |-> d, prayers |-> prayers] :
     d \in first..last}

\* storage.getPrayerRecords(userId, startDate, endDate)
getPrayerRecordsInRange(rows, userId, startDate, endDate) ==
  {r \in getPrayerRecords(rows, userId) : r.date >= startDate /\ r.date <= endDate}

\* getDateRangeForPeriod(period) at the instant now in the client's zone
getDateRange_BeforeToday(period, now, zone) ==
  LET local == LocalDate(now, zone)
      start == IF period = "month" THEN PeriodStart(MonthStarts, local)
               ELSE PeriodStart(YearStarts, local)
  IN [i \in 1..(local - start) |-> ISODateOfLocalMidnight(start + i - 1, zone)]

getDateRangeForPeriod(period, now, zone) ==
  LET local == LocalDate(now, zone)
  IN IF period = "week"
     THEN LET back == IF getDay(local) = 0 THEN 6 ELSE getDay(local) - 1
              monday == now - back
          IN SelectSeq([i \in 1..7 |-> monday + i - 1], LAMBDA d : d <= now)
     ELSE LET start == IF period = "month" THEN PeriodStart(MonthStarts, local)
                       ELSE PeriodStart(YearStarts, local)
          IN [i \in 1..(local - start + 1) |-> ISODateOfLocalMidnight(start + i - 1, zone)]

\* getPeriodSummary, the forEach over dates: records.find(r => r.date === date)
recordOf(records, date) ==
  LET found == {r \in records : r.date = date}
  IN IF found = {} THEN NoRow
     ELSE CHOOSE r \in found : \A q \in found : r.id <= q.id

\* getPeriodSummary, the forEach over dates: the sum of counts[record] over
\* the records found, 5 * missing for each date without a record
periodCount(dates, records, counts, missing) ==
  LET absent == {i \in 1..Len(dates) : recordOf(records, dates[i]) = NoRow}
      present == (1..Len(dates)) \ absent
  IN 5 * missing * Cardinality(absent)
       + Cardinality(UNION {{<<i, k>> : k \in 1..counts[recordOf(records, dates[i])]} :
                              i \in present})

\* getPeriodSummary(period)
getPeriodSummary(period, now, zone, rows) ==
  LET dates == getDateRangeForPeriod(period, now, zone)
      records == IF dates = <<>> THEN {}
                 ELSE getPrayerRecordsInRange(rows, demoUser, dates[1], dates[Len(dates)])
      counted == [possible |-> periodCount(dates, records, [r \in records |-> SlotCount(r.prayers)], 1),
                  completed |-> periodCount(dates, records, [r \in records |-> CompletedCount(r.prayers)], 0),
                  onTime |-> periodCount(dates, records, [r \in records |-> OnTimeCount(r.prayers)], 0)]
  IN [totalPrayers |-> counted.completed,
      totalPossible |-> counted.possible,
      successRate |-> completionRate(counted.completed, counted.possible),
      qazaPrayers |-> counted.possible - counted.completed,
      onTimePrayers |-> counted.onTime,
      period |-> period]

\* the histories a client finds stored when it is opened on a day
HistoriesOn(day) ==
  {{}, HistoryOf(day, day, PartialDay), HistoryOf(Max(1, day - 2), day, LateDay),
   HistoryOf(Max(1, day - 3), day - 1, FullDay), HistoryOf(day, day, ShortDay)}

\* the app is opened at an instant of the UTC date day in a time zone; the
\* store holds a history written by earlier batch updates. initializeApp:
\* loadTodayPrayers takes today's record from the API, loadUserStats takes
\* the streak from GET /api/stats, which creates the zero row when none exists
OpenClient(day, zone, history) ==
  /\ call.fn = NoCall.fn
  /\ op = "start"
  /\ today' = day
  /\ clientZone' = zone
  /\ prayerRecords' = history
  /\ LET stored == IF history = {} THEN userStats
                   ELSE updateUserStatistics(history, userStats, serverBehindUTC, "none")
         apiStats == IF stored = NoStats THEN createUserStats([userId |-> demoUser]) ELSE stored
         apiRecord == getPrayerRecord(history, demoUser, day)
     IN /\ userStats' = apiStats
        /\ currentStreakState' = apiStats.currentStreak
        /\ todayPrayers' = IF apiRecord # NoRow THEN apiRecord.prayers ELSE defaultPrayers
  /\ call' = [fn |-> "open", arg |-> day]
  /\ UNCHANGED <<achievements, serverBehindUTC, op, requestBody, response, upsertCalls,
                 reconcilePasses, failedCall, requests, localStorage, emitted, summary>>
  /\ UNCHANGED <<storeCalls, analyticsVars>>

\* a call of getPeriodSummary(period)
GetPeriodSummary(period) ==
  /\ call.fn = "open"
  /\ call' = [fn |-> "getPeriodSummary", arg |-> period]
  /\ summary' = getPeriodSummary(period, today, clientZone, prayerRecords)
  /\ UNCHANGED serverVars
  /\ UNCHANGED <<today, clientZone, localStorage, emitted, todayPrayers, currentStreakState>>
  /\ UNCHANGED analyticsVars

OpenForPeriod ==
  \E day \in 1..MaxReferenceDay, zone \in ClientZones :
    \E history \in HistoriesOn(day) : OpenClient(day, zone, history)

DoGetPeriodSummary == \E period \in {"week", "month", "year"} : GetPeriodSummary(period)

NextPeriod ==
  \/ OpenForPeriod
  \/ DoGetPeriodSummary

SpecPeriod == Init /\ [][NextPeriod]_vars

\* the year summary was asked for on 2024-03-10 (day 70) with no record stored
YearSummaryOnMarch10 ==
  /\ call.fn = "getPeriodSummary"
  /\ summary.period = "year"
  /\ today = 70
  /\ clientZone.ahead = 0
  /\ prayerRecords = {}

\* C20 as stated: the year summary on 2024-03-10 with zero records has
\* totalPossible = 69 * 5 = 345, totalPrayers = 0, successRate = 0 and
\* qazaPrayers = 345
C20_YearSummary345 ==
  YearSummaryOnMarch10 =>
    /\ summary.totalPossible = 345
    /\ summary.totalPrayers = 0
    /\ summary.successRate = 0
    /\ summary.qazaPrayers = 345

\* C20 amended: with zero records the year summary has totalPossible = 5 times
\* the number of calendar dates from January 1 through the reference date
\* inclusive, which on 2024-03-10 is 70 * 5 = 350, totalPrayers = 0,
\* successRate = 0 and qazaPrayers = totalPossible
C20_YearSummary350 ==
  /\ (call.fn = "getPeriodSummary" /\ summary.period = "year" /\ prayerRecords = {}
        /\ LocalDate(today, clientZone) >= 1) =>
       /\ summary.totalPossible = 5 * LocalDate(today, clientZone)
       /\ summary.totalPrayers = 0
       /\ summary.successRate = 0
       /\ summary.qazaPrayers = summary.totalPossible
  /\ YearSummaryOnMarch10 => summary.totalPossible = 350

C20_Witness ==
  /\ YearSummaryOnMarch10
  /\ summary.totalPossible = 350
  /\ summary.qazaPrayers = 350

\* ------------------------------------------ client: the achievement checks
\* new Date('YYYY-MM-DD'): UTC midnight of the date; its local calendar date
\* is the day before in a zone west of UTC
LocalDateOfISO(date, zone) == IF zone.offset = -1 THEN date - 1 ELSE date

\* toISOString().split('T')[0] of "now" moved by setDate to a local date:
\* the time of day is kept, so the UTC date keeps its distance to the local one
ISODateOfShiftedNow(date, zone) == date - zone.ahead

\* getWeekStart(date): the Monday of the week of a local date
getWeekStart(date) == date - (IF getDay(date) = 0 THEN 6 ELSE getDay(date) - 1)

\* getWeekDates(): the seven dates Monday .. Sunday of the current week
getWeekDates(now, zone) ==
  LET monday == getWeekStart(LocalDate(now, zone))
  IN [i \in 1..7 |-> ISODateOfShiftedNow(monday + i - 1, zone)]

\* calculateWeekProgressFromAPI()
calculateWeekProgressFromAPI(now, zone, rows) ==
  LET weekDates == getWeekDates(now, zone)
      records == getPrayerRecordsInRange(rows, demoUser, weekDates[1], weekDates[7])
  IN completionRate(periodCount(weekDates, records, [r \in records |-> CompletedCount(r.prayers)], 0),
                    periodCount(weekDates, records, [r \in records |-> SlotCount(r.prayers)], 1))

\* calculateMonthProgressFromAPI()
calculateMonthProgressFromAPI(now, zone, rows) ==
  getPeriodSummary("month", now, zone, rows).successRate

\* isEndOfMonth(): tomorrow's local date is the first day of a month
isEndOfMonth(now, zone) ==
  \E i \in 1..Len(MonthStarts) : MonthStarts[i] = LocalDate(now, zone) + 1

\* new Date().getMonth() + 1 within the calendar December 2023 .. April 2024
currentMonth(now, zone) ==
  LET start == PeriodStart(MonthStarts, LocalDate(now, zone))
  IN CASE start = -30 -> 12
       [] start = 1 -> 1
       [] start = 32 -> 2
       [] start = 61 -> 3
       [] OTHER -> 4

\* calculateRealTimeStatistics(newPrayers, currentStats).currentStreak
calculateRealTimeStatistics(newPrayers, currentStreak) ==
  LET todayCompleted == CompletedCount(newPrayers)
      missedToday == 5 - todayCompleted
  IN IF todayCompleted = 5 THEN currentStreak + 1
     ELSE IF missedToday > 0 THEN 0
     ELSE currentStreak

\* for (let i = 0; i < limit; i++) { if (ok) count++; else break }: the
\* number of leading iterations 0, 1, .. that pass, at most limit; ok[i]
\* tells whether iteration i passes
CountBack(limit, ok) ==
  CHOOSE n \in 0..limit :
    /\ n = limit \/ ~ok[n]
    /\ \A i \in 0..(n - 1) : ok[i]

\* checkConsecutivePrayerCompletion(prayerType, targetDays)
checkConsecutivePrayerCompletion(prayerType, targetDays, now, rows) ==
  LET Ok(i) == LET record == getPrayerRecord(rows, demoUser, now - i)
               IN /\ record # NoRow
                  /\ prayerType \in DOMAIN record.prayers
                  /\ record.prayers[prayerType].completed
  IN CountBack(targetDays + 10, [i \in 0..(targetDays + 10) |-> Ok(i)])

slotMilestones == <<3, 7, 15, 30, 60, 100>>

\* the switches of checkEarlyBirdAchievements, checkNightOwlAchievements and
\* checkGoldenHourAchievements
slotTitle(type, milestone) ==
  CASE type = "early_bird" ->
         (CASE milestone = 3 -> "Early Starter"
            [] milestone = 7 -> "Dawn Devotee"
            [] milestone = 15 -> "Morning Master"
            [] milestone = 30 -> "Fajr Champion"
            [] milestone = 60 -> "Early Bird Legend"
            [] OTHER -> "Dawn Guardian")
    [] type = "night_owl" ->
         (CASE milestone = 3 -> "Night Starter"
            [] milestone = 7 -> "Evening Devotee"
            [] milestone = 15 -> "Night Master"
            [] milestone = 30 -> "Isha Champion"
            [] milestone = 60 -> "Night Owl Legend"
            [] OTHER -> "Night Guardian")
    [] OTHER ->
         (CASE milestone = 3 -> "Sunset Starter"
            [] milestone = 7 -> "Golden Devotee"
            [] milestone = 15 -> "Sunset Master"
            [] milestone = 30 -> "Maghrib Champion"
            [] milestone = 60 -> "Golden Hour Legend"
            [] OTHER -> "Sunset Guardian")

\* the loop shared by the three single-slot checks: the first milestone the
\* consecutive completions of the slot reach, then break
checkSlotAchievements(type, prayerType, now, rows) ==
  LET Test(m) == checkConsecutivePrayerCompletion(prayerType, m, now, rows) >= m
      i == FirstIndex([k \in 1..Len(slotMilestones) |-> Test(slotMilestones[k])])
  IN IF i = 0 THEN <<>>
     ELSE <<[type |-> type,
             title |-> slotTitle(type, slotMilestones[i]),
             metadata |-> [consecutiveDays |-> slotMilestones[i],
                           prayerType |-> prayerType,
                           earnedDate |-> now]]>>

checkEarlyBirdAchievements(now, rows) == checkSlotAchievements("early_bird", "fajr", now, rows)
checkNightOwlAchievements(now, rows) == checkSlotAchievements("night_owl", "isha", now, rows)
checkGoldenHourAchievements(now, rows) == checkSlotAchievements("golden_hour", "maghrib", now, rows)

\* the records of the current year the API returns to the weekend and month
\* counters
recordsOfYear(now, zone, rows) ==
  LET dates == getDateRangeForPeriod("year", now, zone)
  IN IF dates = <<>> THEN {}
     ELSE getPrayerRecordsInRange(rows, demoUser, dates[1], dates[Len(dates)])

\* countPerfectWeekends(): the weeks of the year whose Saturday record and
\* Sunday record both have every prayer completed
countPerfectWeekends(now, zone, rows) ==
  LET records == recordsOfYear(now, zone, rows)
      weekend == {r \in records : getDay(LocalDateOfISO(r.date, zone)) \in {6, 0}}
      weekKeyOf(r) == getWeekStart(LocalDateOfISO(r.date, zone))
      perfect(k, dayOfWeek) ==
        \E r \in weekend : /\ weekKeyOf(r) = k
                           /\ getDay(LocalDateOfISO(r.date, zone)) = dayOfWeek
                           /\ allCompleted(r.prayers)
  IN Cardinality({k \in {weekKeyOf(r) : r \in weekend} : perfect(k, 6) /\ perfect(k, 0)})

\* checkConsecutiveWeekendStreaks(): the weekends, from the one of the current
\* week backwards, whose Saturday and Sunday records are fully completed
checkConsecutiveWeekendStreaks(now, zone, rows) ==
  LET currentWeekStart == getWeekStart(LocalDate(now, zone))
      perfectOn(date) ==
        LET record == getPrayerRecord(rows, demoUser, ISODateOfShiftedNow(date, zone))
        IN record # NoRow /\ allCompleted(record.prayers)
      Ok(i) == /\ perfectOn(currentWeekStart - 7 * i + 5)
               /\ perfectOn(currentWeekStart - 7 * i + 6)
  IN CountBack(52, [i \in 0..52 |-> Ok(i)])

\* checkIfComebackStreak(targetDays): the run of fully completed days that
\* ends today is at least targetDays long and a day without a fully
\* completed record is found within targetDays + 5 days
checkIfComebackStreak(targetDays, now, rows) ==
  LET Ok(i) == LET record == getPrayerRecord(rows, demoUser, now - i)
               IN record # NoRow /\ allCompleted(record.prayers)
      run == CountBack(targetDays + 5, [i \in 0..(targetDays + 5) |-> Ok(i)])
  IN run >= targetDays /\ run < targetDays + 5

\* countPerfectMonths(): the months of the year that have a record and whose
\* records have every prayer completed
countPerfectMonths(now, zone, rows) ==
  LET records == recordsOfYear(now, zone, rows)
      monthKeyOf(r) == PeriodStart(MonthStarts, LocalDateOfISO(r.date, zone))
  IN Cardinality({k \in {monthKeyOf(r) : r \in records} :
                    \A r \in records : monthKeyOf(r) = k => allCompleted(r.prayers)})

weekendMilestones == <<1, 2, 4, 8, 12, 24>>
dedicationMilestones == <<3, 7, 15, 30>>
comebackMilestones == <<3, 7, 15, 30>>
monthlyMilestones == <<1, 2, 3, 6, 12>>

\* the switches of the weekend, dedication, comeback and monthly checks
milestoneTitle(type, milestone) ==
  CASE type = "weekend_warrior" ->
         (CASE milestone = 1 -> "Weekend Starter"
            [] milestone = 2 -> "Weekend Enthusiast"
            [] milestone = 4 -> "Weekend Champion"
            [] milestone = 8 -> "Weekend Master"
            [] milestone = 12 -> "Weekend Legend"
            [] OTHER -> "Weekend Guardian")
    [] type = "dedication" ->
         (CASE milestone = 3 -> "Dedicated Beginner"
            [] milestone = 7 -> "Weekend Devotee"
            [] milestone = 15 -> "Dedication Master"
            [] OTHER -> "Ultimate Dedication")
    [] type = "comeback" ->
         (CASE milestone = 3 -> "Fresh Start"
            [] milestone = 7 -> "Comeback Kid"
            [] milestone = 15 -> "Resilient Soul"
            [] OTHER -> "Phoenix Rising")
    [] OTHER ->
         (CASE milestone = 1 -> "Monthly Achiever"
            [] milestone = 2 -> "Bi-Monthly Champion"
            [] milestone = 3 -> "Quarterly Master"
            [] milestone = 6 -> "Half-Year Champion"
            [] OTHER -> "Yearly Champion")

\* checkWeekendWarriorAchievements()
checkWeekendWarriorAchievements(now, zone, rows) ==
  LET perfectWeekends == countPerfectWeekends(now, zone, rows)
      Test(m) == perfectWeekends >= m
      i == FirstIndex([k \in 1..Len(weekendMilestones) |-> Test(weekendMilestones[k])])
  IN IF i = 0 THEN <<>>
     ELSE <<[type |-> "weekend_warrior",
             title |-> milestoneTitle("weekend_warrior", weekendMilestones[i]),
             metadata |-> [perfectWeekends |-> weekendMilestones[i], earnedDate |-> now]]>>

\* checkDedicationAchievements()
checkDedicationAchievements(now, zone, rows) ==
  LET consecutiveWeekends == checkConsecutiveWeekendStreaks(now, zone, rows)
      Test(m) == consecutiveWeekends >= m
      i == FirstIndex([k \in 1..Len(dedicationMilestones) |-> Test(dedicationMilestones[k])])
  IN IF i = 0 THEN <<>>
     ELSE <<[type |-> "dedication",
             title |-> milestoneTitle("dedication", dedicationMilestones[i]),
             metadata |-> [consecutiveWeekends |-> dedicationMilestones[i], earnedDate |-> now]]>>

\* checkComebackAchievements()
checkComebackAchievements(now, rows) ==
  LET Test(m) == checkIfComebackStreak(m, now, rows)
      i == FirstIndex([k \in 1..Len(comebackMilestones) |-> Test(comebackMilestones[k])])
  IN IF i = 0 THEN <<>>
     ELSE <<[type |-> "comeback",
             title |-> milestoneTitle("comeback", comebackMilestones[i]),
             metadata |-> [comebackDays |-> comebackMilestones[i], earnedDate |-> now]]>>

\* checkMonthlyChampionAchievements()
checkMonthlyChampionAchievements(now, zone, rows) ==
  LET perfectMonths == countPerfectMonths(now, zone, rows)
      Test(m) == perfectMonths >= m
      i == FirstIndex([k \in 1..Len(monthlyMilestones) |-> Test(monthlyMilestones[k])])
  IN IF i = 0 THEN <<>>
     ELSE <<[type |-> "monthly_champion",
             title |-> milestoneTitle("monthly_champion", monthlyMilestones[i]),
             metadata |-> [perfectMonths |-> monthlyMilestones[i], earnedDate |-> now]]>>

\* checkSeasonalAchievements(): the April rule; the July rule lies beyond the
\* calendar of the day numbers
checkSeasonalAchievements(now, zone, rows) ==
  IF /\ currentMonth(now, zone) = 4
     /\ isEndOfMonth(now, zone)
     /\ calculateMonthProgressFromAPI(now, zone, rows) = 100
  THEN <<[type |-> "seasonal",
          title |-> "Ramadan Champion",
          metadata |-> [specialMonth |-> "Ramadan", month |-> 4, earnedDate |-> now]]>>
  ELSE <<>>

\* checkConsistencyAchievements(userStats)
checkConsistencyAchievements(now, zone, rows) ==
  LET consistencyRate == getPeriodSummary("month", now, zone, rows).successRate
      weekSummary == getPeriodSummary("week", now, zone, rows)
  IN (IF weekSummary.successRate >= 90
      THEN <<[type |-> "consistency",
              title |-> "Consistent Devotee",
              metadata |-> [consistencyRate |-> weekSummary.successRate,
                            period |-> "week",
                            earnedDate |-> now]]>>
      ELSE <<>>)
     \o (IF consistencyRate >= 80 /\ isEndOfMonth(now, zone)
         THEN <<[type |-> "consistency",
                 title |-> "Monthly Consistency",
                 metadata |-> [consistencyRate |-> consistencyRate,
                               period |-> "month",
                               month |-> currentMonth(now, zone),
                               earnedDate |-> now]]>>
         ELSE <<>>)

\* checkAchievements(prayers, weekProgress, currentStreak, userStats); stats
\* is the row GET /api/stats returned
checkAchievements(prayers, weekProgress, currentStreak, stats, now, zone, rows) ==
  (IF CompletedCount(prayers) = 5
   THEN <<[type |-> "perfect_day",
           title |-> "Perfect Day",
           metadata |-> [date |-> now,
                         onTimePrayers |-> Cardinality({s \in DOMAIN prayers : prayers[s].onTime})]]>>
   ELSE <<>>)
  \o (IF weekProgress = 100
      THEN <<[type |-> "perfect_week",
              title |-> "Perfect Week",
              metadata |-> [dateRange |-> [start |-> getWeekDates(now, zone)[1],
                                           end |-> getWeekDates(now, zone)[7]]]]>>
      ELSE <<>>)
  \o checkStreakAchievements(currentStreak, now)
  \o (IF stats # NoStats
      THEN checkPrayerMilestones(stats.totalPrayers, now)
             \o checkConsistencyAchievements(now, zone, rows)
      ELSE <<>>)
  \o (IF calculateMonthProgressFromAPI(now, zone, rows) = 100 /\ isEndOfMonth(now, zone)
      THEN <<[type |-> "perfect_month",
              title |-> "Perfect Month",
              metadata |-> [month |-> currentMonth(now, zone)]]>>
      ELSE <<>>)
  \o checkEarlyBirdAchievements(now, rows)
  \o checkNightOwlAchievements(now, rows)
  \o checkGoldenHourAchievements(now, rows)
  \o checkWeekendWarriorAchievements(now, zone, rows)
  \o checkDedicationAchievements(now, zone, rows)
  \o checkComebackAchievements(now, rows)
  \o checkMonthlyChampionAchievements(now, zone, rows)
  \o checkSeasonalAchievements(now, zone, rows)

\* ------------------------------------------- client: saving today's prayers
MaxClientRequests == 3    \* toggles, bulk updates and reloads of one client

\* saveTodayPrayers, the localStorage key that guards an achievement
achievementKey(achievement, completedCount, todayDate, weekStart) ==
  IF achievement.type = "perfect_day" /\ completedCount = 5
  THEN <<achievement.title, todayDate>>
  ELSE IF achievement.type = "perfect_week"
  THEN <<achievement.title, weekStart>>
  ELSE IF achievement.type = "streak_milestone"
  THEN <<achievement.type, achievement.metadata.streakDays>>
  ELSE IF achievement.type = "prayer_milestone"
  THEN <<achievement.type, achievement.metadata.totalPrayers>>
  ELSE IF achievement.type = "consistency"
  THEN <<achievement.type, achievement.metadata.period, achievement.metadata.earnedDate>>
  ELSE <<achievement.type, todayDate>>

\* saveTodayPrayers, achievements.forEach from the i-th descriptor on: an
\* achievement whose key is not in localStorage sets the key and is posted
\* to /api/achievements with earnedDate today; the title stands for the
\* description of the badge
RECURSIVE saveAchievements(_, _, _, _, _, _)
saveAchievements(list, i, saved, completedCount, todayDate, weekStart) ==
  IF i > Len(list) THEN saved
  ELSE LET key == achievementKey(list[i], completedCount, todayDate, weekStart)
       IN IF key \in saved.keys
          THEN saveAchievements(list, i + 1, saved, completedCount, todayDate, weekStart)
          ELSE saveAchievements(list, i + 1,
                                [keys |-> saved.keys \cup {key},
                                 rows |-> createAchievement(saved.rows,
                                                            [userId |-> demoUser,
                                                             type |-> list[i].type,
                                                             title |-> list[i].title,
                                                             description |-> list[i].title,
                                                             earnedDate |-> todayDate,
                                                             metadata |-> list[i].metadata]).rows],
                                completedCount, todayDate, weekStart)

\* the client has been opened
ClientOpen == call.fn \in {"open", "togglePrayer", "handleConfirmBatchUpdate", "reload"}

\* togglePrayer(prayer) and the saveTodayPrayers it starts: the new prayers
\* are posted to /api/prayers, which reconciles the statistics; the week
\* progress and the statistics are read back; checkAchievements is given
\* the streak of calculateRealTimeStatistics; the new achievements are
\* posted. op, requestBody and response keep the write request.
TogglePrayer(prayer) ==
  /\ ClientOpen
  /\ requests < MaxClientRequests
  /\ requests' = requests + 1
  /\ \E newPrayers \in {[todayPrayers EXCEPT ![prayer] =
                          [completed |-> ~todayPrayers[prayer].completed,
                           onTime |-> ~todayPrayers[prayer].completed]]} :
     \E written \in {updatePrayerRecord(prayerRecords, demoUser, today, newPrayers)} :
     \E updatedStats \in {updateUserStatistics(written.rows, userStats, serverBehindUTC, "none")} :
     \E list \in {checkAchievements(newPrayers,
                                    calculateWeekProgressFromAPI(today, clientZone, written.rows),
                                    calculateRealTimeStatistics(newPrayers, currentStreakState),
                                    updatedStats, today, clientZone, written.rows)} :
     \E saved \in {saveAchievements(list, 1, [keys |-> localStorage, rows |-> achievements],
                                    CompletedCount(newPrayers), today,
                                    getWeekDates(today, clientZone)[1])} :
       /\ todayPrayers' = newPrayers
       /\ prayerRecords' = written.rows
       /\ userStats' = updatedStats
       /\ currentStreakState' = updatedStats.currentStreak
       /\ emitted' = list
       /\ localStorage' = saved.keys
       /\ achievements' = saved.rows
       /\ op' = "POST /api/prayers"
       /\ requestBody' = <<[date |-> today, prayers |-> newPrayers]>>
       /\ response' = [status |-> 200, records |-> <<written.record>>]
       /\ upsertCalls' = <<[date |-> today, prayers |-> newPrayers]>>
  /\ reconcilePasses' = 1
  /\ failedCall' = "none"
  /\ call' = [fn |-> "togglePrayer", arg |-> today]
  /\ UNCHANGED <<serverBehindUTC, today, clientZone, summary, storeCalls, analyticsVars>>

\* handleConfirmBatchUpdate of the Qaza manager with one batch of dates
\* marked completed: POST /api/prayers/batch stores the updates and
\* reconciles the statistics
ConfirmBatchUpdate(updates) ==
  /\ ClientOpen
  /\ requests < MaxClientRequests
  /\ requests' = requests + 1
  /\ batchUpdatePrayersSchema(updates)
  /\ \E done \in {batchUpdatePrayerRecords(prayerRecords, demoUser, updates, Len(updates))} :
        /\ prayerRecords' = done.rows
        /\ upsertCalls' = done.calls
        /\ userStats' = updateUserStatistics(done.rows, userStats, serverBehindUTC, "none")
        /\ response' = [status |-> 200, records |-> done.records]
  /\ op' = "POST /api/prayers/batch"
  /\ requestBody' = updates
  /\ reconcilePasses' = 1
  /\ failedCall' = "none"
  /\ call' = [fn |-> "handleConfirmBatchUpdate", arg |-> today]
  /\ UNCHANGED <<achievements, serverBehindUTC, today, clientZone, localStorage, emitted,
                 summary, todayPrayers, currentStreakState, storeCalls, analyticsVars>>

\* the app is loaded again on the next day: initializeApp reads the record
\* of the new date and the stored streak
ReloadNextDay ==
  /\ ClientOpen
  /\ requests < MaxClientRequests
  /\ requests' = requests + 1
  /\ today' = today + 1
  /\ LET apiRecord == getPrayerRecord(prayerRecords, demoUser, today + 1)
     IN todayPrayers' = IF apiRecord # NoRow THEN apiRecord.prayers ELSE defaultPrayers
  /\ currentStreakState' = userStats.currentStreak
  /\ call' = [fn |-> "reload", arg |-> today + 1]
  /\ op' = "GET /api/stats"
  /\ requestBody' = <<>>
  /\ response' = [status |-> 200, records |-> <<>>]
  /\ upsertCalls' = <<>>
  /\ reconcilePasses' = 0
  /\ failedCall' = "none"
  /\ UNCHANGED <<prayerRecords, userStats, achievements, serverBehindUTC, clientZone,
                 localStorage, emitted, summary, storeCalls, analyticsVars>>

\* the days a client is opened on and the history stored by then: a new
\* user, and users whose earlier days were all marked completed in bulk
\* (19 days by January 20 or 21, 31 days on January 31)
ClientStarts ==
  {<<1, {}>>,
   <<20, HistoryOf(1, 19, LateDay)>>,
   <<21, HistoryOf(1, 19, LateDay)>>,
   <<31, HistoryOf(1, 31, LateDay)>>}

\* the bulk updates the Qaza manager sends on a day: the day before, or the
\* seven days before, marked completed
QazaUpdates(day) ==
  {RangeUpdates(day - n, n, LateDay) : n \in {k \in {MinBatch, MaxBatch} : day - k >= 1}}

\* the client of the award runs keeps its clock in UTC
OpenForAwards ==
  \E start \in ClientStarts : OpenClient(start[1], UTCZone, start[2])

DoTogglePrayer == \E prayer \in Slots : TogglePrayer(prayer)

DoConfirmBatchUpdate == \E updates \in QazaUpdates(today) : ConfirmBatchUpdate(updates)

NextAwards ==
  \/ OpenForAwards
  \/ DoTogglePrayer
  \/ DoConfirmBatchUpdate
  \/ ReloadNextDay

SpecAwards == Init /\ [][NextAwards]_vars

\* the achievement descriptors the rules give for a record set and its
\* reconciled statistics on a day
RuleCandidates(rows, stats, now, zone) ==
  LET record == getPrayerRecord(rows, demoUser, now)
      prayers == IF record = NoRow THEN defaultPrayers ELSE record.prayers
  IN checkAchievements(prayers, calculateWeekProgressFromAPI(now, zone, rows),
                       stats.currentStreak, stats, now, zone, rows)

\* C12: every successful prayer write, single-day or batch, is followed in
\* the same operation by an evaluation of the achievement rules on the
\* updated records and a create-if-absent of every candidate, so after the
\* operation the store holds an achievement of the type of each candidate
C12_WriteEvaluatesAwards ==
  [][(op' \in {"POST /api/prayers", "POST /api/prayers/batch"} /\ response'.status = 200) =>
       LET candidates == RuleCandidates(prayerRecords', userStats', today', clientZone')
       IN \A i \in 1..Len(candidates) :
            \E a \in achievements' : a.type = candidates[i].type]_vars

\* C15: the prayer_milestone rule emits exactly one descriptor when the
\* total is one of 50, 100, 250, 500, 1000, 2500, 5000 and none otherwise,
\* and once a write has brought the user's total to 100 the store holds
\* exactly one prayer_milestone achievement for 100
C15_PrayerMilestoneAwarded ==
  /\ call.fn = "togglePrayer" =>
       Cardinality({i \in 1..Len(emitted) : emitted[i].type = "prayer_milestone"})
         = IF userStats.totalPrayers \in {50, 100, 250, 500, 1000, 2500, 5000} THEN 1 ELSE 0
  /\ (/\ op \in {"POST /api/prayers", "POST /api/prayers/batch"}
      /\ response.status = 200
      /\ userStats.totalPrayers = 100) =>
       Cardinality({a \in achievements : /\ a.type = "prayer_milestone"
                                         /\ a.metadata.totalPrayers = 100}) = 1

\* the slot of a single-slot family
SlotOfFamily(type) ==
  CASE type = "early_bird" -> "fajr"
    [] type = "night_owl" -> "isha"
    [] OTHER -> "maghrib"

\* the date has a record with the slot completed
SlotDoneOn(rows, date, slot) ==
  \E r \in rows : r.date = date /\ slot \in DOMAIN r.prayers /\ r.prayers[slot].completed

\* the number of consecutive days, counted backward from now, with the slot
\* completed
SlotStreak(rows, now, slot) ==
  CHOOSE n \in 0..now :
    /\ n = now \/ ~SlotDoneOn(rows, now - n, slot)
    /\ \A i \in 0..(n - 1) : SlotDoneOn(rows, now - i, slot)

\* C17: an early_bird, night_owl or golden_hour descriptor is emitted only
\* when the consecutive-day streak of fajr, isha or maghrib counted backward
\* from today equals one of 3, 7, 15, 30, 60, 100, and its consecutiveDays
\* equals that streak
C17_SlotAwardAtExactStreak ==
  call.fn = "togglePrayer" =>
    \A i \in 1..Len(emitted) :
      emitted[i].type \in {"early_bird", "night_owl", "golden_hour"} =>
        LET streak == SlotStreak(prayerRecords, today, SlotOfFamily(emitted[i].type))
        IN /\ streak \in {3, 7, 15, 30, 60, 100}
           /\ emitted[i].metadata.consecutiveDays = streak

\* the families whose badges are milestones
MilestoneTypes ==
  {"streak_milestone", "prayer_milestone", "early_bird", "night_owl", "golden_hour",
   "weekend_warrior", "dedication", "comeback", "monthly_champion"}

\* C18: each milestone is awarded at most once: the store never holds two
\* achievements with the same milestone type and the same title
C18_MilestoneAwardedOnce ==
  \A a, b \in achievements :
    (a.type \in MilestoneTypes /\ a.type = b.type /\ a.title = b.title) => a.id = b.id

\* C19: one invocation of checkAchievements returns at most one descriptor
\* per achievement type
C19_OneDescriptorPerType ==
  call.fn = "togglePrayer" =>
    \A i, j \in 1..Len(emitted) : emitted[i].type = emitted[j].type => i = j

\* ======================================================= claims C21 .. C30
\* C21: for every period and record set the period summary has
\* totalPossible = 5 * dates.length, qazaPrayers = totalPossible -
\* totalPrayers, onTimePrayers <= totalPrayers <= totalPossible and
\* successRate = round(100 * totalPrayers / totalPossible), 0 when
\* totalPossible is 0
C21_PeriodSummaryArithmetic ==
  call.fn = "getPeriodSummary" =>
    /\ summary.totalPossible = 5 * Len(getDateRangeForPeriod(summary.period, today, clientZone))
    /\ summary.qazaPrayers = summary.totalPossible - summary.totalPrayers
    /\ summary.onTimePrayers <= summary.totalPrayers
    /\ summary.totalPrayers <= summary.totalPossible
    /\ IF summary.totalPossible = 0 THEN summary.successRate = 0
       ELSE /\ 2 * summary.totalPossible * summary.successRate
                 <= 200 * summary.totalPrayers + summary.totalPossible
            /\ 200 * summary.totalPrayers + summary.totalPossible
                 < 2 * summary.totalPossible * (summary.successRate + 1)

\* ------------------------------------------------- the analytics entry points
Periods == {"week", "month", "year"}

\* the first days of the months from December 2022 to April 2024, as day numbers
CalendarMonths ==
  <<-395, -364, -333, -305, -274, -244, -213, -183, -152, -121, -91, -60, -30,
    1, 32, 61, 92>>

WeekLabels == <<"Mon", "Tue", "Wed", "Thu", "Fri", "Sat", "Sun">>
MonthLabels == <<"Jan", "Feb", "Mar", "Apr", "May", "Jun", "Jul", "Aug", "Sep", "Oct", "Nov", "Dec">>
WeekOfMonthLabels == <<"Week 1", "Week 2", "Week 3", "Week 4", "Week 5", "Week 6">>

\* ApiService.getPrayerRecords(startDate, endDate): the rows of GET
\* /api/prayers; when the Store read fails the route answers 500, fetch's
\* response is not ok and the Error thrown is caught: it is thrown again when
\* handleAuthError(error) says so, otherwise the call returns []
apiGetPrayerRecords(rows, startDate, endDate, failing, authError) ==
  IF failing = "getPrayerRecords"
  THEN [thrown |-> authError, records |-> {}]
  ELSE [thrown |-> FALSE, records |-> getPrayerRecordsInRange(rows, demoUser, startDate, endDate)]

\* getPeriodSummary(period) with the read of the records and its catch block
getPeriodSummaryFromAPI(period, now, zone, rows, failing, authError) ==
  LET dates == getDateRangeForPeriod(period, now, zone)
      read == apiGetPrayerRecords(rows, dates[1], dates[Len(dates)], failing, authError)
  IN IF read.thrown
     THEN [totalPrayers |-> 0, totalPossible |-> 0, successRate |-> 0, qazaPrayers |-> 0,
           onTimePrayers |-> 0, period |-> period]
     ELSE getPeriodSummary(period, now, zone, read.records)

\* Math.round(sum / length) of the values at the indexes in group
roundedMean(values, group) ==
  LET sum == Cardinality(UNION {{<<i, k>> : k \in 1..values[i]} : i \in group})
      length == Cardinality(group)
  IN (2 * sum + length) \div (2 * length)

\* getTrendDataForPeriod, month view: Math.ceil((dateObj.getDate() + first
\* day of the month .getDay()) / 7) for dateObj = new Date(date)
weekOfMonth(date, zone) ==
  LET local == LocalDateOfISO(date, zone)
      first == PeriodStart(CalendarMonths, local)
  IN (local - first + 1 + getDay(first) + 6) \div 7

\* getTrendDataForPeriod, year view: the month (1..12) of new Date(date)
monthOf(date, zone) ==
  LET first == PeriodStart(CalendarMonths, LocalDateOfISO(date, zone))
      k == CHOOSE i \in 1..Len(CalendarMonths) : CalendarMonths[i] = first
  IN ((k + 10) % 12) + 1

\* getTrendDataForPeriod, the catch block: the fixed labels, and for the week
\* the count of localStorage's prayers-<date> entry, 0 without one; stored is
\* the entry loadTodayPrayers wrote for storedDate, or Undefined
trendFallback(period, dates, storedDate, stored) ==
  LET labels == IF period = "week" THEN WeekLabels
                ELSE IF period = "month" THEN SubSeq(WeekOfMonthLabels, 1, 4)
                ELSE MonthLabels
  IN [labels |-> labels,
      dataPoints |-> [index \in 1..Len(labels) |->
                        IF /\ period = "week"
                           /\ index <= Len(dates)
                           /\ stored # Undefined
                           /\ dates[index] = storedDate
                        THEN CompletedCount(stored) ELSE 0],
      period |-> period]

\* getTrendDataForPeriod(period): getTodayCompletedCount of the converted
\* record throws a TypeError for a record without one of the five slots
getTrendDataForPeriod(period, now, zone, rows, storedDate, stored, failing, authError) ==
  LET dates == getDateRangeForPeriod(period, now, zone)
      read == apiGetPrayerRecords(rows, dates[1], dates[Len(dates)], failing, authError)
      found == [i \in 1..Len(dates) |-> recordOf(read.records, dates[i])]
      thrown == \/ read.thrown
                \/ \E i \in 1..Len(dates) : found[i] # NoRow /\ DOMAIN found[i].prayers # Slots
      completed == [i \in 1..Len(dates) |->
                      IF found[i] = NoRow THEN 0 ELSE CompletedCount(found[i].prayers)]
      weeks == [i \in 1..Len(dates) |-> weekOfMonth(dates[i], zone)]
      firstOfWeek == SelectSeq([i \in 1..Len(dates) |-> i],
                               LAMBDA i : \A j \in 1..(i - 1) : weeks[j] # weeks[i])
      months == [i \in 1..Len(dates) |-> monthOf(dates[i], zone)]
  IN IF thrown THEN trendFallback(period, dates, storedDate, stored)
     ELSE IF period = "week"
     THEN [labels |-> WeekLabels, dataPoints |-> completed, period |-> period]
     ELSE IF period = "month"
     THEN [labels |-> [n \in 1..Len(firstOfWeek) |-> WeekOfMonthLabels[weeks[firstOfWeek[n]]]],
           dataPoints |-> [n \in 1..Len(firstOfWeek) |->
                             roundedMean(completed, {i \in 1..Len(dates) :
                                                       weeks[i] = weeks[firstOfWeek[n]]})],
           period |-> period]
     ELSE [labels |-> MonthLabels,
           dataPoints |-> [m \in 1..12 |->
                             LET monthData == {i \in 1..Len(dates) : months[i] = m}
                             IN IF monthData = {} THEN 0 ELSE roundedMean(completed, monthData)],
           period |-> period]

\* a call of getTrendDataForPeriod(period); prayers-<today> is in localStorage
\* when loadTodayPrayers found today's record
GetTrendDataForPeriod(period, failing, authError) ==
  /\ call.fn = "open"
  /\ call' = [fn |-> "getTrendDataForPeriod", arg |-> period]
  /\ \E stored \in {IF getPrayerRecord(prayerRecords, demoUser, today) # NoRow
                    THEN todayPrayers ELSE Undefined} :
       trendData' = getTrendDataForPeriod(period, today, clientZone, prayerRecords,
                                          today, stored, failing, authError)
  /\ op' = "GET /api/prayers"
  /\ failedCall' = failing
  /\ response' = [status |-> IF failing = "none" THEN 200 ELSE 500, records |-> <<>>]
  /\ UNCHANGED <<prayerRecords, userStats, achievements, serverBehindUTC, requestBody,
                 upsertCalls, reconcilePasses, requests, storeCalls>>
  /\ UNCHANGED <<today, clientZone, localStorage, emitted, summary, todayPrayers,
                 currentStreakState, dateRange, qazaManager>>

\* a call of getPeriodSummary(period) whose read of the records may fail
GetPeriodSummaryFromAPI(period, failing, authError) ==
  /\ call.fn = "open"
  /\ call' = [fn |-> "getPeriodSummary", arg |-> period]
  /\ summary' = getPeriodSummaryFromAPI(period, today, clientZone, prayerRecords, failing, authError)
  /\ op' = "GET /api/prayers"
  /\ failedCall' = failing
  /\ response' = [status |-> IF failing = "none" THEN 200 ELSE 500, records |-> <<>>]
  /\ UNCHANGED <<prayerRecords, userStats, achievements, serverBehindUTC, requestBody,
                 upsertCalls, reconcilePasses, requests, storeCalls>>
  /\ UNCHANGED <<today, clientZone, localStorage, emitted, todayPrayers,
                 currentStreakState, analyticsVars>>

\* a call of getDateRangeForPeriod(period): { startDate: dates[0],
\* endDate: dates[dates.length - 1], dates }
GetDateRangeForPeriod(period) ==
  /\ call.fn = "open"
  /\ call' = [fn |-> "getDateRangeForPeriod", arg |-> period]
  /\ \E dates \in {getDateRangeForPeriod(period, today, clientZone)} :
       dateRange' = [startDate |-> dates[1], endDate |-> dates[Len(dates)], dates |-> dates]
  /\ UNCHANGED serverVars
  /\ UNCHANGED <<today, clientZone, localStorage, emitted, summary, todayPrayers,
                 currentStreakState, trendData, qazaManager>>

\* the first day of the period a calendar date lies in
FirstDayOfPeriod(period, date) ==
  IF period = "week" THEN MondayOf(date)
  ELSE IF period = "month" THEN PeriodStart(MonthStarts, date)
  ELSE PeriodStart(YearStarts, date)

\* C22: getDateRangeForPeriod returns a non-empty list of consecutive
\* ascending dates that starts at the first day of the period (Monday, the
\* 1st of the month, January 1) and ends at the reference date, with
\* startDate the first and endDate the last element
C22_DateRangeOfPeriod ==
  call.fn = "getDateRangeForPeriod" =>
    LET dates == dateRange.dates
        reference == LocalDate(today, clientZone)
    IN /\ dates # <<>>
       /\ \A i \in 1..(Len(dates) - 1) : dates[i + 1] = dates[i] + 1
       /\ dates[1] = FirstDayOfPeriod(call.arg, reference)
       /\ dates[Len(dates)] = reference
       /\ dateRange.startDate = dates[1]
       /\ dateRange.endDate = dates[Len(dates)]

\* the reads of the Record Store: they succeed or the Store call throws
ReadFailures == {"none", "getPrayerRecords"}

DoGetDateRangeForPeriod == \E period \in Periods : GetDateRangeForPeriod(period)

DoGetTrendDataForPeriod ==
  \E period \in Periods, failing \in ReadFailures, authError \in BOOLEAN :
    (failing = "none" => ~authError) /\ GetTrendDataForPeriod(period, failing, authError)

DoGetPeriodSummaryFromAPI ==
  \E period \in Periods, failing \in ReadFailures, authError \in BOOLEAN :
    (failing = "none" => ~authError) /\ GetPeriodSummaryFromAPI(period, failing, authError)

\* the days the analytics are asked for: each weekday of the first week,
\* the last day of January, the first days of February, and March 10
AnalyticsDays == (1..7) \cup {10, 31, 32, 33, 70}

OpenForAnalytics ==
  \E day \in AnalyticsDays, zone \in ClientZones :
    \E history \in HistoriesOn(day) : OpenClient(day, zone, history)

NextAnalytics ==
  \/ OpenForAnalytics
  \/ DoGetDateRangeForPeriod
  \/ DoGetTrendDataForPeriod
  \/ DoGetPeriodSummaryFromAPI

SpecAnalytics == Init /\ [][NextAnalytics]_vars

\* C23: the trend series has one data point per label: for the week exactly
\* 7 points whatever the weekday of the reference date, for the year exactly
\* 12 points, 0 for the months that have no dates yet
C23_TrendPointPerLabel ==
  (call.fn = "getTrendDataForPeriod" /\ failedCall = "none") =>
    /\ Len(trendData.dataPoints) = Len(trendData.labels)
    /\ trendData.period = "week" => Len(trendData.dataPoints) = 7
    /\ trendData.period = "year" =>
         /\ Len(trendData.dataPoints) = 12
         /\ \A m \in 1..12 :
              (\A i \in 1..Len(getDateRangeForPeriod("year", today, clientZone)) :
                 monthOf(getDateRangeForPeriod("year", today, clientZone)[i], clientZone) # m)
                => trendData.dataPoints[m] = 0

\* C24: when the read of the Record Store fails during a period analytics
\* request the failure is propagated as an error: no summary and no trend
\* is returned
C24_ReadFailurePropagated ==
  failedCall = "getPrayerRecords" =>
    /\ call.fn = "getPeriodSummary" => summary.period \notin Periods
    /\ call.fn = "getTrendDataForPeriod" => trendData.period \notin Periods

\* ------------------------------------- concurrent calls of DatabaseStorage
\* Each Store method of DatabaseStorage awaits its select before it writes,
\* and the tables have no unique constraint besides the id, so the calls of
\* requests served at the same time interleave between the two statements.
MaxStoreCalls == 3

StoreCall(fn, arg) == [fn |-> fn, arg |-> arg, pc |-> "select", existing |-> NoRow, returned |-> NoRow]

\* the select of createAchievement: [existingAchievement] of the rows with
\* the userId, type and earnedDate
selectAchievement(rows, insertAchievement) ==
  LET existing == {a \in rows : /\ a.userId = insertAchievement.userId
                                /\ a.type = insertAchievement.type
                                /\ a.earnedDate = insertAchievement.earnedDate}
  IN IF existing = {} THEN NoRow
     ELSE CHOOSE a \in existing : \A b \in existing : a.id <= b.id

\* db.insert(achievements).values([achievement]).returning()
insertAchievementRow(rows, insertAchievement) ==
  [id |-> NewId(rows),
   userId |-> insertAchievement.userId,
   type |-> insertAchievement.type,
   title |-> insertAchievement.title,
   description |-> insertAchievement.description,
   earnedDate |-> insertAchievement.earnedDate,
   metadata |-> insertAchievement.metadata]

\* a request calls storage.createAchievement(insertAchievement)
CallCreateAchievement(insertAchievement) ==
  /\ Len(storeCalls) < MaxStoreCalls
  /\ storeCalls' = Append(storeCalls, StoreCall("createAchievement", insertAchievement))
  /\ UNCHANGED <<prayerRecords, userStats, achievements, serverBehindUTC, op, requestBody,
                 response, upsertCalls, reconcilePasses, failedCall, requests, clientVars>>

\* createAchievement, first statement: await db.select()...
SelectExistingAchievement(i) ==
  /\ storeCalls[i].fn = "createAchievement"
  /\ storeCalls[i].pc = "select"
  /\ storeCalls' = [storeCalls EXCEPT ![i].pc = "insert",
                                      ![i].existing = selectAchievement(achievements, storeCalls[i].arg)]
  /\ UNCHANGED <<prayerRecords, userStats, achievements, serverBehindUTC, op, requestBody,
                 response, upsertCalls, reconcilePasses, failedCall, requests, clientVars>>

\* createAchievement, the rest: return the existing row, or insert and
\* return the created one
InsertAchievement(i) ==
  /\ storeCalls[i].fn = "createAchievement"
  /\ storeCalls[i].pc = "insert"
  /\ IF storeCalls[i].existing # NoRow
     THEN /\ storeCalls' = [storeCalls EXCEPT ![i].pc = "done",
                                               ![i].returned = storeCalls[i].existing]
          /\ UNCHANGED achievements
     ELSE \E created \in {insertAchievementRow(achievements, storeCalls[i].arg)} :
            /\ achievements' = achievements \cup {created}
            /\ storeCalls' = [storeCalls EXCEPT ![i].pc = "done", ![i].returned = created]
  /\ UNCHANGED <<prayerRecords, userStats, serverBehindUTC, op, requestBody,
                 response, upsertCalls, reconcilePasses, failedCall, requests, clientVars>>

\* POST /api/prayers calls storage.updatePrayerRecord(userId, date, prayers)
CallUpdatePrayerRecord(date, prayers) ==
  /\ Len(storeCalls) < MaxStoreCalls
  /\ storeCalls' = Append(storeCalls,
                          StoreCall("updatePrayerRecord", [date |-> date, prayers |-> prayers]))
  /\ UNCHANGED <<prayerRecords, userStats, achievements, serverBehindUTC, op, requestBody,
                 response, upsertCalls, reconcilePasses, failedCall, requests, clientVars>>

\* updatePrayerRecord, first statement: await this.getPrayerRecord(userId, date)
SelectExistingRecord(i) ==
  /\ storeCalls[i].fn = "updatePrayerRecord"
  /\ storeCalls[i].pc = "select"
  /\ storeCalls' = [storeCalls EXCEPT
                      ![i].pc = "write",
                      ![i].existing = getPrayerRecord(prayerRecords, demoUser, storeCalls[i].arg.date)]
  /\ UNCHANGED <<prayerRecords, userStats, achievements, serverBehindUTC, op, requestBody,
                 response, upsertCalls, reconcilePasses, failedCall, requests, clientVars>>

\* updatePrayerRecord, the rest: update the row with the id read, or
\* createPrayerRecord
WritePrayerRecord(i) ==
  /\ storeCalls[i].fn = "updatePrayerRecord"
  /\ storeCalls[i].pc = "write"
  /\ IF storeCalls[i].existing # NoRow
     THEN \E row \in {r \in prayerRecords : r.id = storeCalls[i].existing.id} :
            \E updated \in {[row EXCEPT !.prayers = storeCalls[i].arg.prayers]} :
              /\ prayerRecords' = (prayerRecords \ {row}) \cup {updated}
              /\ storeCalls' = [storeCalls EXCEPT ![i].pc = "reconcile", ![i].returned = updated]
     ELSE \E made \in {createPrayerRecord(prayerRecords, demoUser, storeCalls[i].arg.date,
                                          storeCalls[i].arg.prayers)} :
            /\ prayerRecords' = made.rows
            /\ storeCalls' = [storeCalls EXCEPT ![i].pc = "reconcile", ![i].returned = made.record]
  /\ UNCHANGED <<userStats, achievements, serverBehindUTC, op, requestBody,
                 response, upsertCalls, reconcilePasses, failedCall, requests, clientVars>>

\* POST /api/prayers after the upsert: await updateUserStatistics(userId)
ReconcileAfterWrite(i) ==
  /\ storeCalls[i].fn = "updatePrayerRecord"
  /\ storeCalls[i].pc = "reconcile"
  /\ userStats' = updateUserStatistics(prayerRecords, userStats, serverBehindUTC, "none")
  /\ storeCalls' = [storeCalls EXCEPT ![i].pc = "done"]
  /\ UNCHANGED <<prayerRecords, achievements, serverBehindUTC, op, requestBody,
                 response, upsertCalls, reconcilePasses, failedCall, requests, clientVars>>

\* the achievements and the writes of the concurrent requests
ConcurrentAchievements ==
  {[userId |-> demoUser, type |-> type, earnedDate |-> 1, title |-> "Perfect Day",
    description |-> "All five prayers", metadata |-> [streakDays |-> 0]] :
     type \in AchievementTypes}

DoCallCreateAchievement ==
  \E insertAchievement \in ConcurrentAchievements : CallCreateAchievement(insertAchievement)

DoCallUpdatePrayerRecord ==
  \E date \in {1, 2}, prayers \in {FullDay, PartialDay} : CallUpdatePrayerRecord(date, prayers)

DoSelectExistingAchievement == \E i \in DOMAIN storeCalls : SelectExistingAchievement(i)
DoInsertAchievement == \E i \in DOMAIN storeCalls : InsertAchievement(i)
DoSelectExistingRecord == \E i \in DOMAIN storeCalls : SelectExistingRecord(i)
DoWritePrayerRecord == \E i \in DOMAIN storeCalls : WritePrayerRecord(i)
DoReconcileAfterWrite == \E i \in DOMAIN storeCalls : ReconcileAfterWrite(i)

NextConcurrent ==
  \/ DoCallCreateAchievement
  \/ DoCallUpdatePrayerRecord
  \/ DoSelectExistingAchievement
  \/ DoInsertAchievement
  \/ DoSelectExistingRecord
  \/ DoWritePrayerRecord
  \/ DoReconcileAfterWrite

SpecConcurrent == Init /\ [][NextConcurrent]_vars

\* C25: under any interleaving of concurrent createAchievement calls with
\* the same (userId, type, earnedDate) the store ends with exactly one
\* achievement of that key and every call returns that achievement
C25_ConcurrentCreateOnce ==
  \A i, j \in DOMAIN storeCalls :
    (/\ i # j
     /\ storeCalls[i].fn = "createAchievement" /\ storeCalls[j].fn = "createAchievement"
     /\ storeCalls[i].pc = "done" /\ storeCalls[j].pc = "done"
     /\ storeCalls[i].arg.type = storeCalls[j].arg.type
     /\ storeCalls[i].arg.earnedDate = storeCalls[j].arg.earnedDate)
    => /\ Cardinality({a \in achievements : /\ a.userId = demoUser
                                            /\ a.type = storeCalls[i].arg.type
                                            /\ a.earnedDate = storeCalls[i].arg.earnedDate}) = 1
       /\ storeCalls[i].returned = storeCalls[j].returned

\* C26: under any interleaving of two concurrent writes of a (userId, date)
\* without a record the store ends with exactly one record of that key,
\* holding the prayers of one of the writes, and the reconciled statistics
\* count that date once
C26_ConcurrentWriteOnce ==
  (\A k \in DOMAIN storeCalls :
     storeCalls[k].fn = "updatePrayerRecord" /\ storeCalls[k].pc = "done")
  => /\ \A i \in DOMAIN storeCalls :
          LET stored == {r \in prayerRecords : r.date = storeCalls[i].arg.date}
              writes == {k \in DOMAIN storeCalls : storeCalls[k].arg.date = storeCalls[i].arg.date}
          IN /\ Cardinality(stored) = 1
             /\ \A r \in stored : r.prayers \in {storeCalls[k].arg.prayers : k \in writes}
     /\ storeCalls # <<>> =>
          userStats = createUserStats(computeStatistics(
            {r \in prayerRecords : \A q \in prayerRecords : q.date = r.date => r.id <= q.id},
            serverBehindUTC))

\* the stored statistics are those computed from the stored records
StatisticsMatchRecords ==
  IF userStats = NoStats THEN prayerRecords = {}
  ELSE \A f \in DOMAIN ZeroStats :
         userStats[f] = computeStatistics(getPrayerRecords(prayerRecords, demoUser),
                                          serverBehindUTC)[f]

\* C27: whenever a write request has finished, successfully or with an
\* error, and no Store call of the reconciliation itself failed, the stored
\* statistics equal those computed from the records stored at that moment;
\* when the k-th upsert of a batch fails, they reflect the k-1 stored records
C27_StatisticsAfterEveryWrite ==
  (op \in WriteOps /\ failedCall \notin ReconcileCalls) => StatisticsMatchRecords

\* C28: the streak passed to the streak_milestone rule after a toggle of
\* today's prayers is the currentStreak that the reconciliation of the write
\* computed from the updated records, for every sequence of toggles on a day
C28_RuleStreakIsReconciledStreak ==
  [][call'.fn = "togglePrayer" =>
       calculateRealTimeStatistics(todayPrayers', currentStreakState)
         = userStats'.currentStreak]_vars

\* getWeekEnd(date): weekStart.getDate() + 6
getWeekEnd(date) == getWeekStart(date) + 6

\* the client's week start and week end of a date follow the Monday rule
WeekStartRule(d) ==
  LET weekStart == getWeekStart(d)
  IN /\ getDay(weekStart) = 1
     /\ 0 <= d - weekStart /\ d - weekStart <= 6
     /\ d - weekStart = (IF getDay(d) = 0 THEN 6 ELSE getDay(d) - 1)
     /\ getWeekStart(weekStart) = weekStart
     /\ getWeekEnd(d) = weekStart + 6

\* C29: for every date d weekStart(d) is a Monday with 0 <= d - weekStart(d)
\* <= 6 (Sunday 6 days back, weekday w w-1 days back), weekStart is
\* idempotent, weekEnd(d) = weekStart(d) + 6, and the server's week key in
\* groupRecordsByWeek is the client's getWeekStart of the same date; stated
\* for the dates of the records a reconciliation has grouped
C29_WeekStartIsMonday ==
  Reconciled =>
    \A r \in prayerRecords :
      /\ WeekStartRule(r.date)
      /\ weekKey(r.date, serverBehindUTC) = getWeekStart(r.date)

\* ------------------------------------------------------ QazaPrayerManager
MaxSelectedWeeks == 2

\* getWeeksFromJanuary(): the weeks, by their Monday, from the week of
\* January 1 on whose Sunday is not after today
getWeeksFromJanuary(now) ==
  {w \in getWeekStart(PeriodStart(YearStarts, now))..now :
     getDay(w) = 1 /\ getWeekEnd(w) <= now}

\* getPastMonthsFromJanuary(): the months, by their first day, of the
\* current year before the current month
getPastMonthsFromJanuary(now) ==
  {MonthStarts[k] : k \in {i \in 1..Len(MonthStarts) :
                             /\ MonthStarts[i] >= PeriodStart(YearStarts, now)
                             /\ MonthStarts[i] < PeriodStart(MonthStarts, now)}}

\* month.dates: the dates from the first to the last day of the month
monthDates(first) ==
  LET next == CHOOSE m \in {MonthStarts[k] : k \in 1..Len(MonthStarts)} :
                /\ m > first
                /\ \A k \in 1..Len(MonthStarts) : MonthStarts[k] > first => MonthStarts[k] >= m
  IN [i \in 1..(next - first) |-> first + i - 1]

\* new Set(selected) with the key deleted if present, added at the end if not
toggleSelection(selected, key) ==
  IF \E i \in 1..Len(selected) : selected[i] = key
  THEN SelectSeq(selected, LAMBDA k : k # key)
  ELSE Append(selected, key)

QazaOpen == call.fn \in {"open", "toggleWeekSelection", "toggleMonthSelection"}

\* toggleWeekSelection(weekKey)
ToggleWeekSelection(selectedWeek) ==
  /\ QazaOpen
  /\ selectedWeek \in getWeeksFromJanuary(today)
  /\ \E selected \in {toggleSelection(qazaManager.selectedWeeks, selectedWeek)} :
       /\ Len(selected) <= MaxSelectedWeeks
       /\ qazaManager' = [qazaManager EXCEPT !.selectedWeeks = selected]
  /\ call' = [fn |-> "toggleWeekSelection", arg |-> selectedWeek]
  /\ UNCHANGED serverVars
  /\ UNCHANGED <<today, clientZone, localStorage, emitted, summary, todayPrayers,
                 currentStreakState, dateRange, trendData>>

\* toggleMonthSelection(monthKey)
ToggleMonthSelection(selectedMonth) ==
  /\ QazaOpen
  /\ selectedMonth \in getPastMonthsFromJanuary(today)
  /\ qazaManager' = [qazaManager EXCEPT
                       !.selectedMonths = toggleSelection(qazaManager.selectedMonths, selectedMonth)]
  /\ call' = [fn |-> "toggleMonthSelection", arg |-> selectedMonth]
  /\ UNCHANGED serverVars
  /\ UNCHANGED <<today, clientZone, localStorage, emitted, summary, todayPrayers,
                 currentStreakState, dateRange, trendData>>

\* handleConfirmBatchUpdate, the updates: for each selected week, then for
\* each selected month, one update per date with all five prayers marked
RECURSIVE selectionUpdates(_, _, _, _, _)
selectionUpdates(selected, i, weekly, completed, updates) ==
  IF i > Len(selected) THEN updates
  ELSE LET dates == IF weekly THEN [n \in 1..7 |-> selected[i] + n - 1]
                    ELSE monthDates(selected[i])
           prayers == [s \in Slots |-> [completed |-> completed, onTime |-> FALSE]]
       IN selectionUpdates(selected, i + 1, weekly, completed,
                           updates \o [n \in 1..Len(dates) |-> [date |-> dates[n], prayers |-> prayers]])

\* handleConfirmBatchUpdate: for (let i = 0; i < updates.length; i += batchSize)
\* batches.push(updates.slice(i, i + batchSize)) with batchSize 7
batchesOf(updates) ==
  [k \in 1..((Len(updates) + MaxBatch - 1) \div MaxBatch) |->
     SubSeq(updates, MaxBatch * (k - 1) + 1,
            IF MaxBatch * k < Len(updates) THEN MaxBatch * k ELSE Len(updates))]

\* handleConfirmBatchUpdate() up to its first await: the updates of the
\* selection and their batches; pending holds the batches not sent yet
HandleConfirmBatchUpdate(isMarkingAsCompleted, isMonthMarkingAsCompleted) ==
  /\ QazaOpen
  /\ Len(qazaManager.selectedWeeks) > 0 \/ Len(qazaManager.selectedMonths) > 0
  /\ \E updates \in {selectionUpdates(qazaManager.selectedMonths, 1, FALSE, isMonthMarkingAsCompleted,
                       selectionUpdates(qazaManager.selectedWeeks, 1, TRUE,
                                        isMarkingAsCompleted, <<>>))} :
       /\ qazaManager' = [qazaManager EXCEPT !.pending = batchesOf(updates),
                                             !.batches = <<>>,
                                             !.failedBatch = 0,
                                             !.toast = "none"]
       /\ call' = [fn |-> "handleConfirmBatchUpdate",
                   arg |-> [updates |-> updates,
                            selectedWeeks |-> qazaManager.selectedWeeks,
                            selectedMonths |-> qazaManager.selectedMonths]]
  /\ UNCHANGED serverVars
  /\ UNCHANGED <<today, clientZone, localStorage, emitted, summary, todayPrayers,
                 currentStreakState, dateRange, trendData>>

\* await batchUpdateMutation.mutateAsync(batch) for the next batch of the
\* loop. The request succeeds, or it is rejected after `persisted` of its
\* upserts were stored. onSuccess of batchUpdateMutation resets the weekly
\* selection after each batch that succeeded; after the last batch the
\* handler clears both selections; the catch block only shows the toast.
MutateAsync(failed, persisted) ==
  /\ call.fn = "handleConfirmBatchUpdate"
  /\ qazaManager.pending # <<>>
  /\ \E batch \in {Head(qazaManager.pending)} :
       /\ requestBody' = batch
       /\ IF failed
          THEN /\ persisted < Len(batch)
               /\ prayerRecords' = batchUpdatePrayerRecords(prayerRecords, demoUser, batch, persisted).rows
               /\ upsertCalls' = SubSeq(batch, 1, persisted + 1)
               /\ response' = [status |-> 400, records |-> <<>>]
               /\ failedCall' = "updatePrayerRecord"
               /\ reconcilePasses' = 0
               /\ UNCHANGED userStats
               /\ qazaManager' = [qazaManager EXCEPT
                                    !.pending = <<>>,
                                    !.batches = Append(qazaManager.batches, batch),
                                    !.failedBatch = Len(qazaManager.batches) + 1,
                                    !.toast = "Batch Update Failed"]
          ELSE /\ persisted = 0
               /\ \E done \in {batchUpdatePrayerRecords(prayerRecords, demoUser, batch, Len(batch))} :
                    /\ prayerRecords' = done.rows
                    /\ upsertCalls' = done.calls
                    /\ userStats' = updateUserStatistics(done.rows, userStats, serverBehindUTC, "none")
                    /\ response' = [status |-> 200, records |-> done.records]
               /\ failedCall' = "none"
               /\ reconcilePasses' = 1
               /\ qazaManager' = [qazaManager EXCEPT
                                    !.pending = Tail(qazaManager.pending),
                                    !.batches = Append(qazaManager.batches, batch),
                                    !.selectedWeeks = <<>>,
                                    !.selectedMonths = IF Len(qazaManager.pending) = 1 THEN <<>>
                                                       ELSE qazaManager.selectedMonths,
                                    !.toast = IF Len(qazaManager.pending) = 1
                                              THEN "Prayers Updated Successfully"
                                              ELSE "Batch Update Successful"]
  /\ op' = "POST /api/prayers/batch"
  /\ requests' = requests + 1
  /\ UNCHANGED <<achievements, serverBehindUTC, storeCalls, today, clientZone, localStorage, call,
                 emitted, summary, todayPrayers, currentStreakState, dateRange, trendData>>

\* the days the manager is opened on: two past weeks, or four past weeks
\* and the month of January
QazaDays == {15, 33}

OpenForQaza == \E day \in QazaDays : OpenClient(day, UTCZone, {})

DoToggleWeekSelection == \E selectedWeek \in 1..MaxReferenceDay : ToggleWeekSelection(selectedWeek)

DoToggleMonthSelection == \E selectedMonth \in 1..MaxReferenceDay : ToggleMonthSelection(selectedMonth)

DoHandleConfirmBatchUpdate ==
  \E isMarkingAsCompleted \in BOOLEAN, isMonthMarkingAsCompleted \in BOOLEAN :
    HandleConfirmBatchUpdate(isMarkingAsCompleted, isMonthMarkingAsCompleted)

DoMutateAsync ==
  \E failed \in BOOLEAN, persisted \in {0, 1, MaxBatch - 1} : MutateAsync(failed, persisted)

NextQaza ==
  \/ OpenForQaza
  \/ DoToggleWeekSelection
  \/ DoToggleMonthSelection
  \/ DoHandleConfirmBatchUpdate
  \/ DoMutateAsync

SpecQaza == Init /\ [][NextQaza]_vars

\* the concatenation of the first n batches
RECURSIVE Concatenation(_, _)
Concatenation(batches, n) ==
  IF n = 0 THEN <<>> ELSE Concatenation(batches, n - 1) \o batches[n]

\* the batches were sent one after another, each with 1..7 updates, and in
\* order they are the update list up to the last batch sent
BatchesInOrder ==
  LET sent == qazaManager.batches
      updates == call.arg.updates
  IN /\ \A k \in 1..Len(sent) : Len(sent[k]) >= MinBatch /\ Len(sent[k]) <= MaxBatch
     /\ Concatenation(sent, Len(sent)) = SubSeq(updates, 1, Len(Concatenation(sent, Len(sent))))
     /\ (qazaManager.failedBatch = 0 /\ qazaManager.pending = <<>>) =>
          /\ Len(sent) = (Len(updates) + 6) \div 7
          /\ Concatenation(sent, Len(sent)) = updates

\* a batch failed: it is the last one sent and the batches before it are stored
FailedBatchStopsLoop ==
  qazaManager.failedBatch # 0 =>
    /\ Len(qazaManager.batches) = qazaManager.failedBatch
    /\ qazaManager.pending = <<>>
    /\ \A k \in 1..(qazaManager.failedBatch - 1) :
         \A n \in 1..Len(qazaManager.batches[k]) :
           \E r \in prayerRecords :
             /\ r.date = qazaManager.batches[k][n].date
             /\ \E j \in 1..Len(qazaManager.batches), i \in 1..MaxBatch :
                  /\ i <= Len(qazaManager.batches[j])
                  /\ qazaManager.batches[j][i].date = r.date
                  /\ qazaManager.batches[j][i].prayers = r.prayers

\* a batch failed: the week and month selections are as they were
SelectionKeptOnFailure ==
  qazaManager.failedBatch # 0 =>
    /\ qazaManager.selectedWeeks = call.arg.selectedWeeks
    /\ qazaManager.selectedMonths = call.arg.selectedMonths

\* C30: a confirmed bulk update of m dates sends ceil(m/7) batch requests
\* one after another, each with 1..7 updates, whose concatenation in order
\* is the update list; when a batch fails no later batch is sent, the
\* earlier batches stay applied and the week/month selection is not cleared
C30_BulkUpdateInBatches ==
  call.fn = "handleConfirmBatchUpdate" =>
    /\ BatchesInOrder
    /\ FailedBatchStopsLoop
    /\ SelectionKeptOnFailure

====
